---- MODULE Spec2Model ----
(***************************************************************************)
(* A model of the benchmark's execution sandbox (execution.py) and of the  *)
(* grading strategies built on it (grader.py).                             *)
(*                                                                         *)
(* SpecExec   : one call of execute_function, the parent and the child     *)
(*              process it spawns, interleaved.                            *)
(* SpecSelect : the child's choice of the function under test, over        *)
(*              candidate sources of bounded length.                       *)
(* SpecGrade  : one call of a grading strategy's grade, test case by test  *)
(*              case, each sandbox run returning one of the results        *)
(*              execute_function can return.                               *)
(* SpecBench  : one call of grade_solutions (benchmark.py): the strategies *)
(*              that can grade the problem set, each over every model.     *)
(* SpecMarshal: the test-case marshaler of FunctionPrototype               *)
(*              (base_types.py) applied to bounded prototypes and test     *)
(*              cases, and validate_test_case (validation.py) over them.   *)
(* SpecCoerce : get_python_type applied to a literal, and again to the     *)
(*              value it returned.                                         *)
(* SpecPerformance : PerformanceGrader.grade with runs whose duration      *)
(*              grows with the iterations, under weak fairness.            *)
(***************************************************************************)
EXTENDS Integers, Sequences, FiniteSets, TLC

VARIABLES
    \* ---- execute_function: the call's arguments
    function_code,          \* the candidate source handed to the call
    parameters,             \* the argument list handed to the call
    iterations,             \* requested iteration count
    collect_cpu_time,       \* instrumentation flags
    collect_memory_usage,
    \* ---- execute_function: the parent
    pc,                     \* position of the parent in execute_function
    path,                   \* the return path the parent took
    clock,                  \* seconds elapsed inside process.join(timeout=5)
    fs,                     \* the four temporary files: name -> content
    created,                \* the temporary files this call created
    unlinkFailed,           \* os.unlink raised in the cleanup block
    result_data,            \* what json.load returned to the parent
    outcome,                \* the FunctionExecutionResult returned
    \* ---- executor_script: the child
    childPc,                \* position of the child in executor_script
    sigterm,                \* process.terminate() has sent SIGTERM
    ignoresTerm,            \* the candidate code installed a SIGTERM handler
    cfg,                    \* the config the child loaded
    i,                      \* iterations of the loop completed
    total_time,             \* the child's accumulated CPU time
    peak_memory,            \* the child's maximum traced peak
    result,                 \* the value of the last call
    written,                \* the message the child dumped to the result file
    raised,                 \* the exception the child raised, if any
    \* ---- executor_script: the choice of the function under test
    source,                 \* the candidate source: its top-level statements
    exec_globals,           \* the namespace exec filled, in insertion order
    function,               \* the object executor_script invokes
    selPc,                  \* position in lines 52-60
    \* ---- grader.py: one call of a strategy's grade(problems, solutions)
    grader,                 \* the strategy's identifier
    problems,               \* the problem definitions
    solutions,              \* the solutions of one model
    gpc,                    \* position in grade
    pIdx,                   \* index of the problem of the outer loop
    sIdx,                   \* index of the solution of the inner loop
    tIdx,                   \* index of the next test case
    number_correct,         \* CorrectnessGrader's counters for the solution
    total_tests,
    issues,                 \* the issues gathered for the solution
    solutionGrades,         \* the grades appended so far
    parentGlobals,          \* globals() of the grading process: name -> object
    execSites,              \* where candidate code has been executed
    curRuns,                \* the sandbox runs made for the solution
    gradeRuns,              \* for each appended grade, the runs behind it
    perf_iterations,        \* PerformanceGrader's iterations of the current round
    total_solution_time,    \* PerformanceGrader's accumulated CPU times, in ticks
    total_optimal_time,
    total_solution_peak_memory,  \* MemoryGrader's accumulated peaks
    total_optimal_peak_memory,
    \* ---- benchmark.py: one call of grade_solutions
    graders,                \* the strategies requested, by identifier
    models,                 \* the models whose solutions are graded
    gIdx,                   \* index of the strategy of the outer loop
    mIdx,                   \* index of the model of the inner loop
    bpc,                    \* position in grade_solutions
    gradingOutputs,         \* the outputs appended so far
    saved,                  \* the outputs handed to serialization.save_grades
    gradeCalls,             \* the calls of grade made so far
    \* ---- base_types.py: one use of the marshaler on a test case
    marshal_prototype,      \* the FunctionPrototype
    marshal_test_case,      \* the TestCase
    ordered_parameters,     \* what get_ordered_parameter_values gave
    expected_return,        \* what get_return_values gave
    mpc,                    \* position of the marshaler's use
    validation,             \* what validate_test_case returned
    \* ---- get_python_type applied to one declared type and one literal
    coerce_type,            \* the declared type
    coerce_input,           \* the literal
    coerce_result,          \* get_python_type(coerce_type, coerce_input)
    recoerce_result         \* get_python_type(coerce_type, the value of coerce_result)

execArgs   == <<function_code, parameters, iterations, collect_cpu_time, collect_memory_usage>>
parentVars == <<pc, path, clock, created, unlinkFailed, result_data, outcome>>
childVars  == <<childPc, ignoresTerm, cfg, i, total_time, peak_memory, result, written, raised>>
execVars   == <<execArgs, parentVars, childVars, fs, sigterm>>

selVars    == <<source, exec_globals, function, selPc>>

stratVars  == <<perf_iterations, total_solution_time, total_optimal_time,
                total_solution_peak_memory, total_optimal_peak_memory>>

gradeVars  == <<grader, problems, solutions, gpc, pIdx, sIdx, tIdx, number_correct,
                total_tests, issues, solutionGrades, parentGlobals, execSites,
                curRuns, gradeRuns, stratVars>>

benchVars  == <<graders, models, gIdx, mIdx, bpc, gradingOutputs, saved, gradeCalls>>

coerceVars == <<coerce_type, coerce_input, coerce_result, recoerce_result>>
marshalVars == <<marshal_prototype, marshal_test_case, ordered_parameters, expected_return, mpc,
                 validation, coerceVars>>

vars == <<execVars, selVars, gradeVars, benchVars, marshalVars>>

-----------------------------------------------------------------------------
(* Bounds of the model *)

MaxIter     == 2    \* iterations is drawn from 0 .. MaxIter
MaxCpuDelta == 1    \* one call's CPU-time delta, in ticks, is in 0 .. MaxCpuDelta
MaxMemPeak  == 2    \* one call's traced peak is in 1 .. MaxMemPeak
MaxStatements == 3  \* a candidate source has at most this many top-level statements
MaxTests    == 2    \* a correctness test suite has at most this many test cases
MaxRounds   == 2    \* PerformanceGrader's rounds followed for one test case
MaxExpected == 3    \* longest expected_output list of a marshaled test case

(* Program constants *)

JoinTimeoutSeconds == 5

\* CPU times are counted in ticks of 0.1 s: the 0.4 of grader.py line 150
TimeThresholdTicks == 4
\* grader.py line 191
MemoryIterations == 10

-----------------------------------------------------------------------------
(* Python values *)

None        == [t |-> "none"]
PyInt(n)    == [t |-> "int", n |-> n]
PyStr(s)    == [t |-> "str", s |-> s]
PyBool(b)   == [t |-> "bool", b |-> b]
PyList(xs)  == [t |-> "list", items |-> xs]
PyTuple(xs) == [t |-> "tuple", items |-> xs]
PyDict(d)   == [t |-> "dict", d |-> d]
\* a value the json module has no encoding for (a set, a function object, ...)
PyObject    == [t |-> "object"]

EmptyDict == PyDict([k \in {} |-> None])

\* dict.get(key, default)
DictGet(dict, key, default) ==
    IF key \in DOMAIN dict.d THEN dict.d[key] ELSE default

\* bool(value) of a str-or-None value, as `if value:` evaluates it
Truthy(v) ==
    CASE v.t = "none" -> FALSE
      [] v.t = "str"  -> v.s # ""
      [] v.t = "int"  -> v.n # 0
      [] v.t = "bool" -> v.b
      [] v.t \in {"list", "tuple"} -> Len(v.items) > 0
      [] v.t = "dict" -> DOMAIN v.d # {}
      [] OTHER -> TRUE

-----------------------------------------------------------------------------
(* json.dump / json.load *)

JNull     == [j |-> "null"]
JNum(n)   == [j |-> "num", n |-> n]
JStr(s)   == [j |-> "str", s |-> s]
JBool(b)  == [j |-> "bool", b |-> b]
JArr(xs)  == [j |-> "arr", items |-> xs]
JObj(m)   == [j |-> "obj", m |-> m]

RECURSIVE Serializable(_)
Serializable(v) ==
    CASE v.t \in {"none", "int", "str", "bool"} -> TRUE
      [] v.t \in {"list", "tuple"} ->
            \A k \in 1..Len(v.items) : Serializable(v.items[k])
      [] v.t = "dict" -> \A k \in DOMAIN v.d : Serializable(v.d[k])
      [] OTHER -> FALSE

RECURSIVE JsonDump(_)
JsonDump(v) ==
    CASE v.t = "none" -> JNull
      [] v.t = "int"  -> JNum(v.n)
      [] v.t = "str"  -> JStr(v.s)
      [] v.t = "bool" -> JBool(v.b)
      [] v.t \in {"list", "tuple"} ->
            JArr([k \in 1..Len(v.items) |-> JsonDump(v.items[k])])
      [] v.t = "dict" -> JObj([k \in DOMAIN v.d |-> JsonDump(v.d[k])])

RECURSIVE JsonLoad(_)
JsonLoad(doc) ==
    CASE doc.j = "null" -> None
      [] doc.j = "num"  -> PyInt(doc.n)
      [] doc.j = "str"  -> PyStr(doc.s)
      [] doc.j = "bool" -> PyBool(doc.b)
      [] doc.j = "arr"  -> PyList([k \in 1..Len(doc.items) |-> JsonLoad(doc.items[k])])
      [] doc.j = "obj"  -> PyDict([k \in DOMAIN doc.m |-> JsonLoad(doc.m[k])])

-----------------------------------------------------------------------------
(* File contents *)

Absent     == [kind |-> "absent"]
EmptyFile  == [kind |-> "empty"]
\* a prefix of a JSON document: the writer died before the text was complete
Truncated  == [kind |-> "truncated"]
Text(s)    == [kind |-> "text", s |-> s]
Doc(d)     == [kind |-> "json", doc |-> d]

FileNames == {"code", "parameters", "config", "result"}

\* json.load(file) succeeds exactly on a complete JSON document
Decodable(content) == content.kind = "json"

JSONDecodeErrorText == "Expecting value: line 1 column 1 (char 0)"
TimeoutErrorText    == "Function execution timed out after 5 seconds."
UnboundResultText   == "local variable 'result' referenced before assignment"
NotSerializableText == "Object of type set is not JSON serializable"
OSErrorText         == "[Errno 28] No space left on device"
TracebackText       == "Traceback (most recent call last): ..."

-----------------------------------------------------------------------------
(* FunctionExecutionResult *)

FunctionExecutionResult(res, cpu, mem, err, tb, code, params) ==
    [result |-> res, cpu_time |-> cpu, peak_memory |-> mem, error |-> err,
     traceback |-> tb, function_code |-> code, parameters |-> params]

Pending == [t |-> "pending"]

TimeoutResult(code, params) ==
    FunctionExecutionResult(None, None, None, PyStr(TimeoutErrorText), None, code, params)

\* the except clause at the end of execute_function
ExceptResult(text, code, params) ==
    FunctionExecutionResult(None, None, None, PyStr(text), None, code, params)

-----------------------------------------------------------------------------
(* Inputs of execute_function *)

Codes      == {PyStr("codeA"), PyStr("codeB")}
ParamLists == {PyList(<<PyInt(1)>>)}

\* values a candidate function may return
ResultValues == {None, PyInt(1), PyTuple(<<PyInt(1), PyInt(2)>>), PyObject}

\* str(e) of the exceptions a candidate may raise
ExcMessages == {"", "boom"}

Unbound == [t |-> "unbound"]
NoException == [kind |-> "none"]
\* an instance of a subclass of Exception, raised at `at`
RaisedException(msg, at) == [kind |-> "Exception", msg |-> msg, at |-> at]
\* SystemExit, KeyboardInterrupt, GeneratorExit: BaseException but not Exception
RaisedSystemExit(at) == [kind |-> "SystemExit", msg |-> "", at |-> at]

Max(a, b) == IF a >= b THEN a ELSE b

-----------------------------------------------------------------------------
(* execute_function: the parent *)

\* grader.py lines 130-131, 134 and 187-188: the totals of a solution
StratFresh ==
    /\ perf_iterations = 1
    /\ total_solution_time = 0
    /\ total_optimal_time = 0
    /\ total_solution_peak_memory = 0
    /\ total_optimal_peak_memory = 0

\* no grading is under way
GradeIdle ==
    /\ grader = "none"
    /\ problems = <<>>
    /\ solutions = <<>>
    /\ gpc = "idle"
    /\ pIdx = 1
    /\ sIdx = 1
    /\ tIdx = 1
    /\ number_correct = 0
    /\ total_tests = 0
    /\ issues = <<>>
    /\ solutionGrades = <<>>
    /\ parentGlobals = <<>>
    /\ execSites = {}
    /\ curRuns = <<>>
    /\ gradeRuns = <<>>
    /\ StratFresh

\* grade_solutions is not being followed
BenchIdle ==
    /\ graders = <<>>
    /\ models = <<>>
    /\ gIdx = 1
    /\ mIdx = 1
    /\ bpc = "idle"
    /\ gradingOutputs = <<>>
    /\ saved = <<>>
    /\ gradeCalls = <<>>

\* the marshaler is not being applied
\* get_python_type is not being applied on its own
CoerceIdle ==
    /\ coerce_type = <<>>
    /\ coerce_input = None
    /\ coerce_result = Pending
    /\ recoerce_result = Pending

MarshalIdle ==
    /\ marshal_prototype = None
    /\ marshal_test_case = None
    /\ ordered_parameters = Pending
    /\ expected_return = Pending
    /\ mpc = "idle"
    /\ validation = Pending
    /\ CoerceIdle

\* no candidate source is being examined
SelIdle ==
    /\ source = <<>>
    /\ exec_globals = <<>>
    /\ function = [t |-> "unset"]
    /\ selPc = "idle"

\* the state of a call before its first step
ExecFresh ==
    /\ path = "none"
    /\ clock = 0
    /\ fs = [f \in FileNames |-> Absent]
    /\ created = {}
    /\ unlinkFailed = FALSE
    /\ result_data = None
    /\ outcome = Pending
    /\ childPc = "notstarted"
    /\ sigterm = FALSE
    /\ ignoresTerm = FALSE
    /\ cfg = None
    /\ i = 0
    /\ total_time = 0
    /\ peak_memory = 0
    /\ result = Unbound
    /\ written = None
    /\ raised = NoException

InitExec ==
    /\ SelIdle
    /\ GradeIdle
    /\ BenchIdle
    /\ MarshalIdle
    /\ function_code \in Codes
    /\ parameters \in ParamLists
    /\ iterations \in 0..MaxIter
    /\ collect_cpu_time \in BOOLEAN
    /\ collect_memory_usage \in BOOLEAN
    /\ pc = "create"
    /\ ExecFresh

\* no call of execute_function is being followed step by step
ExecIdle ==
    /\ function_code = PyStr("codeA")
    /\ parameters = PyList(<<>>)
    /\ iterations = 1
    /\ collect_cpu_time = FALSE
    /\ collect_memory_usage = FALSE
    /\ pc = "idle"
    /\ ExecFresh

\* the order in which the four files are created and unlinked
FileOrder == <<"code", "parameters", "config", "result">>
FirstFiles(n) == {FileOrder[k] : k \in 1..n}

config_data ==
    PyDict([k \in {"iterations", "collect_cpu_time", "collect_memory_usage"} |->
        CASE k = "iterations" -> PyInt(iterations)
          [] k = "collect_cpu_time" -> PyBool(collect_cpu_time)
          [] k = "collect_memory_usage" -> PyBool(collect_memory_usage)])

\* lines 110-129: the four temporary files are created and written
CreateTempFiles ==
    /\ pc = "create"
    /\ fs' = [f \in FileNames |->
                CASE f = "code" -> Text(function_code.s)
                  [] f = "parameters" -> Doc(JsonDump(parameters))
                  [] f = "config" -> Doc(JsonDump(config_data))
                  [] f = "result" -> EmptyFile]
    /\ created' = FileNames
    /\ pc' = "start"
    /\ UNCHANGED <<selVars, gradeVars, benchVars, marshalVars, execArgs, path, clock, unlinkFailed, result_data, outcome, childVars, sigterm>>

\* `except OSError` in place of `except Exception`
ParentCatches_OnlyOSError(exc) == exc.at = "create"

\* line 170: `except Exception` catches the exception
ParentCatches(exc) == exc.kind = "Exception"

\* lines 170-175: an exception leaves the try block of execute_function: the
\* except clause returns a result if it catches it, otherwise the exception
\* propagates to the caller
ParentRaise(exc) ==
    IF ParentCatches(exc)
    THEN /\ outcome' = ExceptResult(exc.msg, function_code, parameters)
         /\ path' = "except"
         /\ pc' = "returned"
    ELSE /\ pc' = "raised"
         /\ UNCHANGED <<outcome, path>>

\* lines 110-113, 170-175: creating a temporary file raises OSError
CreateTempFilesFails ==
    /\ pc = "create"
    /\ \E n \in 0..3 :
        /\ fs' = [f \in FileNames |-> IF f \in FirstFiles(n) THEN EmptyFile ELSE Absent]
        /\ created' = FirstFiles(n)
    /\ ParentRaise(RaisedException(OSErrorText, "create"))
    /\ UNCHANGED <<selVars, gradeVars, benchVars, marshalVars, execArgs, clock, unlinkFailed, result_data, childVars, sigterm>>

\* lines 132-133: process.start()
StartProcess ==
    /\ pc = "start"
    /\ childPc' = "load"
    /\ pc' = "join"
    /\ clock' = 0
    /\ UNCHANGED <<selVars, gradeVars, benchVars, marshalVars, execArgs, path, created, unlinkFailed, result_data, outcome, fs, sigterm,
                   ignoresTerm, cfg, i, total_time, peak_memory, result, written, raised>>

ChildAlive == childPc \notin {"notstarted", "exited"}

\* process.join() called without a timeout
JoinExpired_NoTimeout == FALSE

\* the timeout of process.join(timeout=5) has elapsed
JoinExpired == clock >= JoinTimeoutSeconds

\* wall-clock time passing while the parent is blocked in join
Tick ==
    /\ pc = "join"
    /\ clock < JoinTimeoutSeconds
    /\ clock' = clock + 1
    /\ UNCHANGED <<selVars, gradeVars, benchVars, marshalVars, execArgs, pc, path, created, unlinkFailed, result_data, outcome, fs, sigterm, childVars>>

\* line 134: join returns when the child has exited or the timeout has elapsed
JoinReturns ==
    /\ pc = "join"
    /\ (~ChildAlive \/ JoinExpired)
    /\ pc' = "check"
    /\ UNCHANGED <<selVars, gradeVars, benchVars, marshalVars, execArgs, path, clock, created, unlinkFailed, result_data, outcome, fs, sigterm, childVars>>

\* lines 137-143: is_alive() is true: terminate() and return the timeout result
CheckAliveTimeout ==
    /\ pc = "check"
    /\ ChildAlive
    /\ sigterm' = TRUE
    /\ outcome' = TimeoutResult(function_code, parameters)
    /\ path' = "timeout"
    /\ pc' = "returned"
    /\ UNCHANGED <<selVars, gradeVars, benchVars, marshalVars, execArgs, clock, created, unlinkFailed, result_data, fs, childVars>>

\* line 137: is_alive() is false
CheckAliveExited ==
    /\ pc = "check"
    /\ ~ChildAlive
    /\ pc' = "load"
    /\ UNCHANGED <<selVars, gradeVars, benchVars, marshalVars, execArgs, path, clock, created, unlinkFailed, result_data, outcome, fs, sigterm, childVars>>

\* lines 146-147: json.load of the result file succeeds
LoadResult ==
    /\ pc = "load"
    /\ Decodable(fs["result"])
    /\ result_data' = JsonLoad(fs["result"].doc)
    /\ pc' = "unlink"
    /\ UNCHANGED <<selVars, gradeVars, benchVars, marshalVars, execArgs, path, clock, created, unlinkFailed, outcome, fs, sigterm, childVars>>

\* lines 146-147, 170-175: json.load raises, the except clause returns
LoadResultFails ==
    /\ pc = "load"
    /\ ~Decodable(fs["result"])
    /\ ParentRaise(RaisedException(JSONDecodeErrorText, "load"))
    /\ UNCHANGED <<selVars, gradeVars, benchVars, marshalVars, execArgs, clock, created, unlinkFailed, result_data, fs, sigterm, childVars>>

\* lines 159-168: the result object built from the loaded message
ConstructResult(data, code, params) ==
    LET metrics == DictGet(data, "metrics", EmptyDict)
    IN  FunctionExecutionResult(
            DictGet(data, "result", None),
            DictGet(metrics, "cpu_time", None),
            DictGet(metrics, "peak_memory", None),
            DictGet(data, "error", None),
            DictGet(data, "traceback", None),
            code, params)

\* lines 149-168: the files are unlinked in order (a failing os.unlink is
\* logged and ends the cleanup), then the result object is returned
UnlinkAndReturn ==
    /\ pc = "unlink"
    /\ \E n \in 0..4 :
        /\ fs' = [f \in FileNames |-> IF f \in FirstFiles(n) THEN Absent ELSE fs[f]]
        /\ unlinkFailed' = (n < 4)
    /\ outcome' = ConstructResult(result_data, function_code, parameters)
    /\ path' = "normal"
    /\ pc' = "returned"
    /\ UNCHANGED <<selVars, gradeVars, benchVars, marshalVars, execArgs, clock, created, result_data, sigterm, childVars>>

-----------------------------------------------------------------------------
(* executor_script: the child *)

\* lines 47-49: the configuration with its defaults
cfg_iterations           == DictGet(cfg, "iterations", PyInt(1)).n
cfg_collect_cpu_time     == DictGet(cfg, "collect_cpu_time", PyBool(FALSE)).b
cfg_collect_memory_usage == DictGet(cfg, "collect_memory_usage", PyBool(FALSE)).b

\* line 101: `except Exception` catches the exception
ChildCatches(exc) == exc.kind = "Exception"

\* an exception leaves the try block of executor_script: the except clause
\* runs if it catches it, otherwise the exception ends the process
Raise(exc) ==
    /\ raised' = exc
    /\ childPc' = IF ChildCatches(exc) THEN "except" ELSE "exited"

\* what candidate code may raise
CandidateExceptions(at) ==
    {RaisedException(m, at) : m \in ExcMessages} \cup {RaisedSystemExit(at)}

\* lines 35-49: the child reads its three input files
ChildLoad ==
    /\ childPc = "load"
    /\ cfg' = JsonLoad(fs["config"].doc)
    /\ childPc' = "exec"
    /\ UNCHANGED <<selVars, gradeVars, benchVars, marshalVars, execArgs, parentVars, fs, sigterm, ignoresTerm, i, total_time, peak_memory,
                   result, written, raised>>

\* lines 52-64: exec of the source defines the function(s); the top-level
\* code may install a SIGTERM handler
ChildExec ==
    /\ childPc = "exec"
    /\ childPc' = "loop"
    /\ i' = 0
    /\ total_time' = 0
    /\ peak_memory' = 0
    /\ ignoresTerm' \in BOOLEAN
    /\ UNCHANGED <<selVars, gradeVars, benchVars, marshalVars, execArgs, parentVars, fs, sigterm, cfg, result, written, raised>>

\* line 56: exec of the source raises
ChildExecRaises ==
    /\ childPc = "exec"
    /\ \E exc \in CandidateExceptions("exec") : Raise(exc)
    /\ UNCHANGED <<selVars, gradeVars, benchVars, marshalVars, execArgs, parentVars, fs, sigterm, ignoresTerm, cfg, i, total_time,
                   peak_memory, result, written>>

\* lines 67-88: one iteration of the loop, the call returning
ChildCall ==
    /\ childPc = "loop"
    /\ i < cfg_iterations
    /\ \E value \in ResultValues, delta \in 0..MaxCpuDelta, max_mem \in 1..MaxMemPeak :
        /\ result' = value
        /\ total_time' = IF cfg_collect_cpu_time THEN total_time + delta ELSE total_time
        /\ peak_memory' = IF cfg_collect_memory_usage THEN Max(peak_memory, max_mem)
                                                      ELSE peak_memory
    /\ i' = i + 1
    /\ ignoresTerm' \in {ignoresTerm, TRUE}
    /\ UNCHANGED <<selVars, gradeVars, benchVars, marshalVars, execArgs, parentVars, fs, sigterm, childPc, cfg, written, raised>>

\* line 76: the call raises
ChildCallRaises ==
    /\ childPc = "loop"
    /\ i < cfg_iterations
    /\ \E exc \in CandidateExceptions("call") : Raise(exc)
    /\ UNCHANGED <<selVars, gradeVars, benchVars, marshalVars, execArgs, parentVars, fs, sigterm, ignoresTerm, cfg, i, total_time,
                   peak_memory, result, written>>

\* both metrics written whatever the flags
Metrics_Always ==
    PyDict([k \in {"cpu_time", "peak_memory"} |->
            IF k = "cpu_time" THEN PyInt(total_time) ELSE PyInt(peak_memory)])

\* lines 90-94
Metrics ==
    PyDict([k \in ({"cpu_time"} \cap (IF cfg_collect_cpu_time THEN {"cpu_time"} ELSE {}))
                  \cup ({"peak_memory"} \cap (IF cfg_collect_memory_usage THEN {"peak_memory"} ELSE {}))
            |-> IF k = "cpu_time" THEN PyInt(total_time) ELSE PyInt(peak_memory)])

\* line 97
Output == PyDict([k \in {"result", "metrics"} |-> IF k = "result" THEN result ELSE Metrics])

\* the error message also reporting the metrics gathered so far
ErrorMessage_WithMetrics(exc) ==
    PyDict([k \in {"result", "error", "traceback", "metrics"} |->
        CASE k = "result" -> None
          [] k = "error" -> PyStr(exc.msg)
          [] k = "traceback" -> PyStr(TracebackText)
          [] k = "metrics" -> Metrics_Always])

\* line 104
ErrorMessage(exc) ==
    PyDict([k \in {"result", "error", "traceback"} |->
        CASE k = "result" -> None
          [] k = "error" -> PyStr(exc.msg)
          [] k = "traceback" -> PyStr(TracebackText)])

\* lines 90-98: the loop is over; the output is built and the result file is
\* opened for writing (which empties it). With no iteration done, `result`
\* is unbound and line 97 raises.
ChildOpenResult ==
    /\ childPc = "loop"
    /\ i >= cfg_iterations
    /\ IF result = Unbound
       THEN /\ Raise(RaisedException(UnboundResultText, "output"))
            /\ UNCHANGED fs
       ELSE /\ childPc' = "dump"
            /\ fs' = [fs EXCEPT !["result"] = EmptyFile]
            /\ UNCHANGED raised
    /\ UNCHANGED <<selVars, gradeVars, benchVars, marshalVars, execArgs, parentVars, sigterm, ignoresTerm, cfg, i, total_time,
                   peak_memory, result, written>>

\* line 99: json.dump of the output; a value json cannot encode raises
\* TypeError after part of the text was written
ChildDump ==
    /\ childPc = "dump"
    /\ IF Serializable(Output)
       THEN /\ fs' = [fs EXCEPT !["result"] = Doc(JsonDump(Output))]
            /\ written' = Output
            /\ childPc' = "exited"
            /\ UNCHANGED raised
       ELSE /\ fs' = [fs EXCEPT !["result"] = Truncated]
            /\ Raise(RaisedException(NotSerializableText, "dump"))
            /\ UNCHANGED written
    /\ UNCHANGED <<selVars, gradeVars, benchVars, marshalVars, execArgs, parentVars, sigterm, ignoresTerm, cfg, i, total_time,
                   peak_memory, result>>

\* lines 101-104: the except clause writes the error message
ChildExcept ==
    /\ childPc = "except"
    /\ fs' = [fs EXCEPT !["result"] = Doc(JsonDump(ErrorMessage(raised)))]
    /\ written' = ErrorMessage(raised)
    /\ childPc' = "exited"
    /\ UNCHANGED <<selVars, gradeVars, benchVars, marshalVars, execArgs, parentVars, sigterm, ignoresTerm, cfg, i, total_time,
                   peak_memory, result, raised>>

\* what the death of the process leaves in the result file
AfterDeath(content) == IF childPc = "dump" THEN Truncated ELSE content

\* the process ends without unwinding: os._exit in the candidate, a fatal
\* signal, the out-of-memory killer
ChildDies ==
    /\ childPc \in {"exec", "loop", "dump"}
    /\ childPc' = "exited"
    /\ fs' = [fs EXCEPT !["result"] = AfterDeath(@)]
    /\ UNCHANGED <<selVars, gradeVars, benchVars, marshalVars, execArgs, parentVars, sigterm, ignoresTerm, cfg, i, total_time,
                   peak_memory, result, written, raised>>

\* SIGTERM ends a child that has not replaced the default handler
ChildTerminated ==
    /\ sigterm
    /\ ChildAlive
    /\ ~ignoresTerm
    /\ childPc' = "exited"
    /\ fs' = [fs EXCEPT !["result"] = AfterDeath(@)]
    /\ UNCHANGED <<selVars, gradeVars, benchVars, marshalVars, execArgs, parentVars, sigterm, ignoresTerm, cfg, i, total_time,
                   peak_memory, result, written, raised>>

-----------------------------------------------------------------------------
(* One call of execute_function *)

ParentStep ==
    \/ CreateTempFiles
    \/ CreateTempFilesFails
    \/ StartProcess
    \/ JoinReturns
    \/ CheckAliveTimeout
    \/ CheckAliveExited
    \/ LoadResult
    \/ LoadResultFails
    \/ UnlinkAndReturn

ChildStep ==
    \/ ChildLoad
    \/ ChildExec
    \/ ChildExecRaises
    \/ ChildCall
    \/ ChildCallRaises
    \/ ChildOpenResult
    \/ ChildDump
    \/ ChildExcept
    \/ ChildDies
    \/ ChildTerminated

NextExec == ParentStep \/ Tick \/ ChildStep

\* the parent runs and wall-clock time passes; nothing obliges the child to
\* make progress
SpecExec == InitExec /\ [][NextExec]_vars /\ WF_vars(ParentStep) /\ WF_vars(Tick)

-----------------------------------------------------------------------------
(* Properties of execute_function, checked under SpecExec *)

Returned == pc = "returned"

IsTimeoutResult(r) == r.error = PyStr(TimeoutErrorText)

AllFilesRemoved == \A f \in FileNames : fs[f] = Absent

\* the parent read a result file that holds no complete JSON document
ReadMalformedResult ==
    /\ pc \in {"returned", "raised"}
    /\ created = FileNames
    /\ path # "timeout"
    /\ fs["result"] \in {EmptyFile, Truncated}

\* C1: every call of execute_function returns a FunctionExecutionResult,
\* whatever the child does, and never blocks for ever; when the child is
\* still alive after the 5-second join, the parent terminates it and returns
\* the timeout result (the timeout error text, result None).
C1_ReturnsWithinTimeout ==
    /\ <>Returned
    /\ [](pc # "raised")
    /\ [](Returned => outcome # Pending)
    /\ [][(pc = "check" /\ ChildAlive /\ pc' # pc) =>
            /\ pc' = "returned"
            /\ sigterm'
            /\ outcome' = TimeoutResult(function_code, parameters)
            /\ outcome'.result = None
            /\ clock = JoinTimeoutSeconds]_vars

\* a child that never finishes: the parent has returned the timeout result
C1_Witness ==
    /\ Returned
    /\ IsTimeoutResult(outcome)
    /\ childPc = "loop"
    /\ clock = JoinTimeoutSeconds

\* C2: whenever execute_function returns a timeout result, the child it
\* spawned is no longer running at the moment of return.
C2_ChildStoppedAtReturn ==
    (Returned /\ IsTimeoutResult(outcome)) => ~ChildAlive

\* C3: on every return path on which the four temporary files were created,
\* all four have been removed when the call returns, unless the removal
\* itself failed.
C3_TempFilesRemoved ==
    (Returned /\ created = FileNames /\ ~unlinkFailed) => AllFilesRemoved

\* C4: when the child ended without writing a well-formed result message
\* (the result file is empty or truncated), execute_function returns a
\* result with a non-empty error and result None, and no exception leaves
\* execute_function.
C4_MalformedResultIsFailure ==
    ReadMalformedResult =>
        /\ pc = "returned"
        /\ outcome.error.t = "str"
        /\ outcome.error.s # ""
        /\ outcome.result = None

\* the child died while dumping its output and the parent has returned
C4_Witness ==
    /\ ReadMalformedResult
    /\ Returned
    /\ fs["result"] = Truncated
    /\ childPc = "exited"

\* C5: an exception raised in the child while compiling or invoking the
\* candidate is caught inside executor_script and reported, so the parent's
\* result for that run has error and traceback both set.
C5_ChildExceptionReported ==
    (Returned /\ path # "timeout" /\ raised.kind # "none" /\ raised.at \in {"exec", "call"}) =>
        /\ outcome.error # None
        /\ outcome.traceback # None

\* C6: every returned FunctionExecutionResult is a success (error None) or a
\* failure (error set, result, cpu_time and peak_memory None), and carries
\* the function_code and parameters of the call.
C6_SuccessOrFailure ==
    Returned =>
        /\ \/ outcome.error = None
           \/ /\ outcome.error.t = "str"
              /\ outcome.result = None
              /\ outcome.cpu_time = None
              /\ outcome.peak_memory = None
        /\ outcome.function_code = function_code
        /\ outcome.parameters = parameters

\* a failure reported by the child after it had gathered metrics
C6_Witness ==
    /\ Returned
    /\ path = "normal"
    /\ outcome.error # None
    /\ raised.at = "call"
    /\ total_time > 0

\* C7: for a successful run, cpu_time is set iff collect_cpu_time was
\* requested, peak_memory is set iff collect_memory_usage was requested, and
\* the parent reads exactly the values the child wrote under metrics.
C7_MetricsMatchFlags ==
    (Returned /\ path = "normal" /\ outcome.error = None) =>
        /\ (outcome.cpu_time # None) <=> collect_cpu_time
        /\ (outcome.peak_memory # None) <=> collect_memory_usage
        /\ outcome.cpu_time = DictGet(written.d["metrics"], "cpu_time", None)
        /\ outcome.peak_memory = DictGet(written.d["metrics"], "peak_memory", None)
        /\ collect_cpu_time => outcome.cpu_time = PyInt(total_time)
        /\ collect_memory_usage => outcome.peak_memory = PyInt(peak_memory)

\* a successful run with only the CPU time requested
C7_Witness ==
    /\ Returned
    /\ path = "normal"
    /\ outcome.error = None
    /\ collect_cpu_time
    /\ ~collect_memory_usage
    /\ outcome.cpu_time = PyInt(MaxIter * MaxCpuDelta)

-----------------------------------------------------------------------------
(* executor_script, lines 51-60: the function under test *)

\* a top-level statement binds a name: `def name`, `class name`, `name = 1`
StatementKinds == {"def", "class", "value"}
\* "cast" is also a name that `from typing import *` exports
StatementNames == {"f", "g", "cast"}
Statements == [name : StatementNames, kind : StatementKinds]

RECURSIVE SeqsUpTo(_, _)
SeqsUpTo(S, n) ==
    IF n = 0 THEN {<<>>}
    ELSE LET shorter == SeqsUpTo(S, n - 1)
         IN  shorter \cup {Append(q, x) : q \in {r \in shorter : Len(r) = n - 1}, x \in S}

Sources == SeqsUpTo(Statements, MaxStatements)

\* callable(object)
Callable(obj) == obj.callable

\* the object the k-th statement of the source creates
SourceObject(stmt, k) ==
    [origin |-> "source", idx |-> k, callable |-> stmt.kind \in {"def", "class"}]

\* the namespace before the candidate's statements run: exec adds
\* __builtins__, then line 52's `from typing import *` binds typing's names
\* in the order of typing.__all__ (a sample of them)
Prelude ==
    << [name |-> "__builtins__",  value |-> [origin |-> "builtins", idx |-> 0, callable |-> FALSE]],
       [name |-> "List",          value |-> [origin |-> "typing", idx |-> 1, callable |-> TRUE]],
       [name |-> "cast",          value |-> [origin |-> "typing", idx |-> 2, callable |-> TRUE]],
       [name |-> "TYPE_CHECKING", value |-> [origin |-> "typing", idx |-> 3, callable |-> FALSE]],
       [name |-> "TypeGuard",     value |-> [origin |-> "typing", idx |-> 4, callable |-> TRUE]] >>

\* dict[name] = value: a new key goes to the end, an existing key keeps its place
DictSet(d, name, value) ==
    IF \E k \in 1..Len(d) : d[k].name = name
    THEN [k \in 1..Len(d) |-> IF d[k].name = name THEN [name |-> name, value |-> value] ELSE d[k]]
    ELSE Append(d, [name |-> name, value |-> value])

\* line 56: exec(function_code, exec_globals)
RECURSIVE ExecStatements(_, _, _)
ExecStatements(d, stmts, k) ==
    IF k > Len(stmts) THEN d
    ELSE ExecStatements(DictSet(d, stmts[k].name, SourceObject(stmts[k], k)), stmts, k + 1)

\* line 59: [name for name in exec_globals if callable(exec_globals[name])]
CallableNames(d) == SelectSeq(d, LAMBDA e : Callable(e.value))

\* lines 59-60: [...][-1], then exec_globals[last_function_name]
LastFunction(d) == CallableNames(d)[Len(CallableNames(d))].value

InitSelect ==
    /\ ExecIdle
    /\ GradeIdle
    /\ BenchIdle
    /\ MarshalIdle
    /\ source \in Sources
    /\ exec_globals = <<>>
    /\ function = [t |-> "unset"]
    /\ selPc = "exec"

\* lines 52-56
SelExec ==
    /\ selPc = "exec"
    /\ exec_globals' = ExecStatements(Prelude, source, 1)
    /\ selPc' = "select"
    /\ UNCHANGED <<source, function, execVars, gradeVars, benchVars, marshalVars>>

\* lines 59-60
SelSelect ==
    /\ selPc = "select"
    /\ function' = LastFunction(exec_globals)
    /\ selPc' = "selected"
    /\ UNCHANGED <<source, exec_globals, execVars, gradeVars, benchVars, marshalVars>>

NextSelect == SelExec \/ SelSelect

SpecSelect == InitSelect /\ [][NextSelect]_vars

-----------------------------------------------------------------------------
(* Properties of the choice of the function under test, under SpecSelect *)

CallableStatement(stmt) == stmt.kind \in {"def", "class"}

\* the k-th statement's binding is still in effect at the end of the source
StillBound(src, k) == \A m \in (k + 1)..Len(src) : src[m].name # src[k].name

\* the statements that define a callable the source still holds at its end
CallableDefinitions(src) ==
    {k \in 1..Len(src) : CallableStatement(src[k]) /\ StillBound(src, k)}

SetMax(S) == CHOOSE x \in S : \A y \in S : y <= x

\* the last top-level callable the source defines
LastDefinedCallable(src) ==
    LET k == SetMax(CallableDefinitions(src)) IN SourceObject(src[k], k)

\* C8: the function executor_script invokes is the last top-level callable
\* defined by the candidate source, for every source that defines one.
C8_InvokesLastDefinedCallable ==
    (selPc = "selected" /\ CallableDefinitions(source) # {}) =>
        function = LastDefinedCallable(source)


-----------------------------------------------------------------------------
(* base_types.py: the type marshaler *)

\* Text that the marshaler inspects (a test case literal, a declared type) is
\* a sequence of characters; a declared type is a sequence of tokens.
Digits == <<"0", "1", "2", "3", "4", "5", "6", "7", "8", "9">>
IsDigit(c) == \E d \in 1..10 : Digits[d] = c
DigitValue(c) == (CHOOSE d \in 1..10 : Digits[d] = c) - 1

\* the outcome of an operation that may raise
Ok(v)  == [ok |-> TRUE, v |-> v]
Err(e) == [ok |-> FALSE, e |-> e]

TypeInt         == <<"int">>
TypeStr         == <<"str">>
TypeBool        == <<"bool">>
TypeOptionalInt == <<"Optional[", "int", "]">>
TypeListInt     == <<"List[", "int", "]">>
TypeOptionalStr  == <<"Optional[", "str", "]">>
TypeOptionalBool == <<"Optional[", "bool", "]">>

\* line 268: re.search(r'^Optional\[(.*)\]$', param_type) strips one layer
StripOptional(param_type) ==
    IF Len(param_type) >= 2 /\ param_type[1] = "Optional[" /\ param_type[Len(param_type)] = "]"
    THEN SubSeq(param_type, 2, Len(param_type) - 1)
    ELSE param_type

\* line 272: one matching pair of quotes around the text is removed
StripQuotes(chars) ==
    IF Len(chars) >= 1
       /\ \/ (chars[1] = "'" /\ chars[Len(chars)] = "'")
          \/ (chars[1] = "\"" /\ chars[Len(chars)] = "\"")
    THEN SubSeq(chars, 2, Len(chars) - 1)
    ELSE chars

RECURSIVE DigitsValue(_, _)
DigitsValue(chars, acc) ==
    IF chars = <<>> THEN acc
    ELSE DigitsValue(Tail(chars), 10 * acc + DigitValue(Head(chars)))

AllDigits(chars) == Len(chars) >= 1 /\ \A k \in 1..Len(chars) : IsDigit(chars[k])

\* int(text): an optional sign and decimal digits, otherwise ValueError
ParseInt(chars) ==
    IF AllDigits(chars) THEN Ok(PyInt(DigitsValue(chars, 0)))
    ELSE IF Len(chars) >= 2 /\ chars[1] = "-" /\ AllDigits(Tail(chars))
         THEN Ok(PyInt(0 - DigitsValue(Tail(chars), 0)))
    ELSE IF Len(chars) >= 2 /\ chars[1] = "+" /\ AllDigits(Tail(chars))
         THEN Ok(PyInt(DigitsValue(Tail(chars), 0)))
    ELSE Err("ValueError: invalid literal for int()")

Lower(c) ==
    CASE c = "T" -> "t" [] c = "R" -> "r" [] c = "U" -> "u" [] c = "E" -> "e"
      [] c = "F" -> "f" [] c = "A" -> "a" [] c = "L" -> "l" [] c = "S" -> "s"
      [] OTHER -> c

\* ast.literal_eval of a scalar literal
LiteralScalar(chars) ==
    IF chars = <<"N", "o", "n", "e">> THEN Ok(None)
    ELSE IF chars = <<"T", "r", "u", "e">> THEN Ok(PyBool(TRUE))
    ELSE IF chars = <<"F", "a", "l", "s", "e">> THEN Ok(PyBool(FALSE))
    ELSE IF AllDigits(chars) THEN Ok(PyInt(DigitsValue(chars, 0)))
    ELSE Err("ValueError: malformed node or string")

\* the comma-separated pieces of a text
RECURSIVE SplitCommas(_, _, _)
SplitCommas(chars, piece, acc) ==
    IF chars = <<>> THEN Append(acc, piece)
    ELSE IF Head(chars) = "," THEN SplitCommas(Tail(chars), <<>>, Append(acc, piece))
    ELSE IF Head(chars) = " " THEN SplitCommas(Tail(chars), piece, acc)
    ELSE SplitCommas(Tail(chars), Append(piece, Head(chars)), acc)

\* line 283: ast.literal_eval(input): a scalar literal or a flat list of them
LiteralEval(chars) ==
    IF Len(chars) >= 2 /\ chars[1] = "[" /\ chars[Len(chars)] = "]"
    THEN LET inner == SubSeq(chars, 2, Len(chars) - 1)
             parts == IF inner = <<>> THEN <<>> ELSE SplitCommas(inner, <<>>, <<>>)
         IN  IF \A k \in 1..Len(parts) : LiteralScalar(parts[k]).ok
             THEN Ok(PyList([k \in 1..Len(parts) |-> LiteralScalar(parts[k]).v]))
             ELSE Err("ValueError: malformed node or string")
    ELSE LiteralScalar(chars)

\* the characters of the text written between double quotes and read back as
\* a Python string literal (line 278): \\, \', \" and \n are the escapes
\* followed here; a bare double quote, a bare line feed or a backslash at the
\* end leaves the literal unterminated or malformed (SyntaxError)
RECURSIVE Unescape(_, _)
Unescape(chars, acc) ==
    IF chars = <<>> THEN Ok(acc)
    ELSE IF Head(chars) = "\\"
         THEN (IF Len(chars) >= 2 /\ chars[2] \in {"\\", "'", "\""}
               THEN Unescape(Tail(Tail(chars)), Append(acc, chars[2]))
               ELSE IF Len(chars) >= 2 /\ chars[2] = "n"
               THEN Unescape(Tail(Tail(chars)), Append(acc, "\n"))
               ELSE Err("SyntaxError: invalid syntax"))
    ELSE IF Head(chars) \in {"\"", "\n"} THEN Err("SyntaxError: invalid syntax")
    ELSE Unescape(Tail(chars), Append(acc, Head(chars)))

\* str(value) of a marshaled literal
StrOf(v) ==
    CASE v.t = "str" -> v.s
      [] v.t = "int" /\ v.n \in 0..9 -> <<Digits[v.n + 1]>>
      [] v.t = "bool" -> IF v.b THEN <<"T", "r", "u", "e">> ELSE <<"F", "a", "l", "s", "e">>
      [] OTHER -> <<"?">>

\* lines 266-285
get_python_type(param_type, input) ==
    LET ty == StripOptional(param_type)
        in == IF input.t = "str" THEN PyStr(StripQuotes(input.s)) ELSE input
    IN  IF input = None THEN Ok(None)
        ELSE IF ty = TypeInt
             THEN (IF in.t = "str" THEN ParseInt(in.s)
                   ELSE IF in.t = "int" THEN Ok(in)
                   ELSE IF in.t = "bool" THEN Ok(PyInt(IF in.b THEN 1 ELSE 0))
                   ELSE Err("TypeError: int() argument"))
        ELSE IF ty = TypeStr
             THEN (IF Unescape(StrOf(in), <<>>).ok
                   THEN Ok(PyStr(Unescape(StrOf(in), <<>>).v))
                   ELSE Unescape(StrOf(in), <<>>))
        ELSE IF ty = TypeBool
             THEN Ok(PyBool([k \in 1..Len(StrOf(in)) |-> Lower(StrOf(in)[k])] = <<"t", "r", "u", "e">>))
        ELSE IF (\E k \in 1..Len(ty) : ty[k] \in {"List[", "Optional[", "Dict[", "Tuple["})
                /\ in.t = "str"
             THEN LiteralEval(in.s)
        ELSE Ok(in)

\* a test case: parameters maps names to literals, expected_output lists literals
TestCase(params, expected) == [parameters |-> params, expected_output |-> expected]

FunctionPrototype(name, params, rets) ==
    [function_name |-> name, parameters |-> params, return_values |-> rets]

\* line 291, one turn of the loop: test_case.parameters[param.name] raises
\* KeyError for a name the test case lacks, otherwise the value is coerced
parameter_value(proto, test_case, k) ==
    IF proto.parameters[k].name \in DOMAIN test_case.parameters
    THEN get_python_type(proto.parameters[k].type,
                         test_case.parameters[proto.parameters[k].name])
    ELSE Err("KeyError")

\* lines 287-292: the declared parameters are converted one after the other;
\* the first one that fails ends the call with its error
get_parameter_values(proto, test_case) ==
    LET n == Len(proto.parameters)
        failed(k) == ~parameter_value(proto, test_case, k).ok
    IN  IF \E k \in 1..n : failed(k)
        THEN Err(parameter_value(proto, test_case,
                    CHOOSE k \in 1..n : failed(k) /\ \A m \in 1..(k - 1) : ~failed(m)).e)
        ELSE Ok([name \in {proto.parameters[k].name : k \in 1..n} |->
                    parameter_value(proto, test_case,
                        CHOOSE k \in 1..n : proto.parameters[k].name = name
                                             /\ \A m \in (k + 1)..n : proto.parameters[m].name # name).v])

\* a variant that leaves out the declared parameters the test case lacks
get_ordered_parameter_values_SkipAbsent(proto, test_case) ==
    LET declared == SelectSeq(proto.parameters,
                              LAMBDA p : p.name \in DOMAIN test_case.parameters)
        values == get_parameter_values([proto EXCEPT !.parameters = declared], test_case)
    IN  IF values.ok
        THEN Ok(PyList([k \in 1..Len(declared) |-> values.v[declared[k].name]]))
        ELSE values

\* lines 294-301: the converted values in declared order
get_ordered_parameter_values(proto, test_case) ==
    LET values == get_parameter_values(proto, test_case)
    IN  IF values.ok
        THEN Ok(PyList([k \in 1..Len(proto.parameters) |-> values.v[proto.parameters[k].name]]))
        ELSE values

Min(a, b) == IF a <= b THEN a ELSE b

\* lines 303-315: zip of the declared return values and the expected output;
\* a single converted value is returned bare, otherwise a tuple
get_return_values(proto, test_case) ==
    LET n == Min(Len(proto.return_values), Len(test_case.expected_output))
        coerced(k) == get_python_type(proto.return_values[k].type, test_case.expected_output[k])
    IN  IF \E k \in 1..n : ~coerced(k).ok
        THEN Err((coerced(CHOOSE k \in 1..n : ~coerced(k).ok /\ \A m \in 1..(k - 1) : coerced(m).ok)).e)
        ELSE IF n = 1 THEN Ok(coerced(1).v)
        ELSE Ok(PyTuple([k \in 1..n |-> coerced(k).v]))

-----------------------------------------------------------------------------
(* grader.py: problems, solutions, grades *)

\* additional_fields holds the keys of the problem's additional fields;
\* parent is additional_fields["parent_function_prototype"]["function_name"],
\* and "" stands for a problem without that field
ProblemDefinition(id, prompts, proto, suite, optimal, parent) ==
    [identifier |-> id, prompts |-> prompts, function_prototype |-> proto,
     correctness_test_suite |-> suite, optimal_solution |-> optimal,
     additional_fields |-> IF parent = "" THEN {} ELSE {"parent_function_prototype"},
     parent_function_name |-> parent]

GradingOutput(solution_grades, grader_identifier) ==
    [solution_grades |-> solution_grades, grader_identifier |-> grader_identifier]

TwoPrompts == PyList(<<"prompt1", "prompt2">>)

LLMSolution(problem_id, model_id, prompt_id, code) ==
    [problem_identifier |-> problem_id, model_identifier |-> model_id,
     prompt_identifier |-> prompt_id, solution_code |-> code]

SolutionGrade(problem_id, prompt_id, model_id, score, sub_scores, issue_list) ==
    [problem_identifier |-> problem_id, prompt_identifier |-> prompt_id,
     model_identifier |-> model_id, score |-> score,
     sub_criteria_scores |-> sub_scores, issues |-> issue_list]

\* a score is the quotient num / den of two integers
Ratio(n, d) == [num |-> n, den |-> d]
Zero == Ratio(0, 1)

\* f(a: int) -> Optional[int]
PrototypeF ==
    FunctionPrototype("f", <<[name |-> "a", type |-> TypeInt]>>, <<[type |-> TypeOptionalInt]>>)
\* g(a: int) -> int, int
PrototypeG ==
    FunctionPrototype("g", <<[name |-> "a", type |-> TypeInt]>>,
                      <<[type |-> TypeInt], [type |-> TypeInt]>>)

ArgOne == [n \in {"a"} |-> PyStr(<<"1">>)]
NoArgs == [n \in {} |-> None]

\* test cases for f: expecting 1, expecting None, with an expected output
\* that is no int, and lacking the parameter
TestCasePool ==
    { TestCase(ArgOne, <<PyStr(<<"1">>)>>),
      TestCase(ArgOne, <<None>>),
      TestCase(ArgOne, <<PyStr(<<"x">>)>>),
      TestCase(NoArgs, <<PyStr(<<"1">>)>>) }

Suites == SeqsUpTo(TestCasePool, MaxTests)

ProblemG ==
    ProblemDefinition("p2", TwoPrompts, PrototypeG, <<TestCase(ArgOne, <<PyStr(<<"1">>), PyStr(<<"2">>)>>)>>,
                      PyStr("optimalG"), "parent")

ProblemSets ==
    { <<ProblemDefinition("p1", TwoPrompts, PrototypeF, suite, PyStr("optimalF"), "parent"), ProblemG>> :
        suite \in Suites }

SolutionA1 == LLMSolution("p1", "model", "prompt1", PyStr("codeA"))
SolutionC1 == LLMSolution("p1", "model", "prompt2", PyStr("codeC"))
SolutionB2 == LLMSolution("p2", "model", "prompt1", PyStr("codeB"))
\* a solution of a problem that is not in the problem set
SolutionA9 == LLMSolution("p9", "model", "prompt1", PyStr("codeA"))

SolutionLists ==
    { <<>>, <<SolutionA1>>, <<SolutionB2>>, <<SolutionA1, SolutionB2>>,
      <<SolutionB2, SolutionA1>>, <<SolutionA1, SolutionC1>>, <<SolutionA9, SolutionA1>> }

\* a problem without test cases
ProblemEmpty ==
    ProblemDefinition("p2", TwoPrompts, PrototypeG, <<>>, PyStr("optimalG"), "parent")

\* the problem sets graded by the strategies that run candidate and
\* reference side by side
TimedSuites == SeqsUpTo({TestCase(ArgOne, <<PyStr(<<"1">>)>>), TestCase(NoArgs, <<PyStr(<<"1">>)>>)},
                        MaxTests)

TimedProblemSets ==
    { <<ProblemDefinition("p1", TwoPrompts, PrototypeF, suite, PyStr("optimalF"), "parent"), ProblemEmpty>> :
        suite \in TimedSuites }

TimedSolutionLists ==
    { <<>>, <<SolutionA1>>, <<SolutionB2, SolutionA1>>, <<SolutionA9, SolutionA1>> }

GraderNames == {"correctness", "code_reuse", "performance", "memory"}

ProblemSetsOf(name) ==
    IF name \in {"performance", "memory"} THEN TimedProblemSets ELSE ProblemSets

SolutionListsOf(name) ==
    IF name \in {"performance", "memory"} THEN TimedSolutionLists ELSE SolutionLists


\* the CPU times, in ticks, a run may report: none measurable, some, and
\* more than the threshold
CpuTimes == {0, 3, TimeThresholdTicks + 1}

\* function_code_file.write(None) raises TypeError inside execute_function's try
WriteNoneText == "write() argument must be str, not None"

\* the results execute_function can return for a run (a sample of the values
\* and messages): the timeout result, the child's error message with an
\* empty or a non-empty text, the child's output with the value as json
\* reloads it and the metrics that were requested; for a source that is
\* None, the result of the except clause
SandboxResults(code, params, cpu, mem) ==
    LET cpu_times == IF cpu THEN {PyInt(t) : t \in CpuTimes} ELSE {None}
        peaks     == IF mem THEN {PyInt(m) : m \in 1..MaxMemPeak} ELSE {None}
    IN  IF code = None
        THEN {ExceptResult(WriteNoneText, code, params)}
        ELSE {TimeoutResult(code, params)}
             \cup {FunctionExecutionResult(None, None, None, PyStr(m), PyStr(TracebackText), code, params) :
                     m \in ExcMessages}
             \cup {FunctionExecutionResult(JsonLoad(JsonDump(v)), c, m, None, None, code, params) :
                     v \in {x \in ResultValues : Serializable(x)}, c \in cpu_times, m \in peaks}

\* Python's == on the values compared here
PyEq(a, b) == a = b

-----------------------------------------------------------------------------
(* grader.py: the loops of grade(problems, solutions) *)

\* globals().get(name) of the grader module, for the names bound there by
\* an exec of a solution's source
Lookup(d, name) ==
    IF \E k \in 1..Len(d) : d[k].name = name
    THEN Ok(d[CHOOSE k \in 1..Len(d) : d[k].name = name].value)
    ELSE Err("AttributeError: 'NoneType' object has no attribute '__code__'")

InitGrade ==
    /\ ExecIdle
    /\ SelIdle
    /\ BenchIdle
    /\ MarshalIdle
    /\ grader \in GraderNames
    /\ problems \in ProblemSetsOf(grader)
    /\ solutions \in SolutionListsOf(grader)
    /\ gpc = "solutions"
    /\ pIdx = 1
    /\ sIdx = 1
    /\ tIdx = 1
    /\ number_correct = 0
    /\ total_tests = 0
    /\ issues = <<>>
    /\ solutionGrades = <<>>
    /\ parentGlobals = <<>>
    /\ execSites = {}
    /\ curRuns = <<>>
    /\ gradeRuns = <<>>
    /\ StratFresh

problem  == problems[pIdx]

\* Grader.run_function, line 48: `execution.execute_function(...)` reads the
\* name `execution` from the module's globals; once a solution's source
\* executed there (ReuseGrader.grade, line 482) has bound that name to
\* something else, the call raises AttributeError
ExecutionRebound == Lookup(parentGlobals, "execution").ok
solution == solutions[sIdx]

InSolutionLoop == gpc = "solutions" /\ pIdx <= Len(problems) /\ sIdx <= Len(solutions)

\* lines 84-88: the solution is of another problem: no grade, next solution
SkipSolution ==
    /\ InSolutionLoop
    /\ solution.problem_identifier # problem.identifier
    /\ sIdx' = sIdx + 1
    /\ number_correct' = 0
    /\ total_tests' = 0
    /\ issues' = <<>>
    /\ UNCHANGED <<execVars, selVars, benchVars, marshalVars, stratVars, grader, problems, solutions, gpc, pIdx, tIdx,
                   solutionGrades, parentGlobals, execSites, curRuns, gradeRuns>>

\* lines 84-89 (127-132, 184-189): the solution is of this problem: its
\* counters and totals start at 0 and its test cases come next
BeginSolution ==
    /\ InSolutionLoop
    /\ solution.problem_identifier = problem.identifier
    /\ gpc' = "tests"
    /\ tIdx' = 1
    /\ number_correct' = 0
    /\ total_tests' = 0
    /\ issues' = <<>>
    /\ curRuns' = <<>>
    /\ perf_iterations' = 1
    /\ total_solution_time' = 0
    /\ total_optimal_time' = 0
    /\ total_solution_peak_memory' = 0
    /\ total_optimal_peak_memory' = 0
    /\ UNCHANGED <<execVars, selVars, benchVars, marshalVars, grader, problems, solutions, pIdx, sIdx,
                   solutionGrades, parentGlobals, execSites, gradeRuns>>

\* lines 82-84: the solutions are exhausted: next problem
NextProblem ==
    /\ gpc = "solutions"
    /\ pIdx <= Len(problems)
    /\ sIdx > Len(solutions)
    /\ pIdx' = pIdx + 1
    /\ sIdx' = 1
    /\ UNCHANGED <<execVars, selVars, benchVars, marshalVars, stratVars, grader, problems, solutions, gpc, tIdx, number_correct,
                   total_tests, issues, solutionGrades, parentGlobals, execSites, curRuns,
                   gradeRuns>>

\* line 114: return GradingOutput(solutionGrades, self.identifier)
GradeReturn ==
    /\ gpc = "solutions"
    /\ pIdx > Len(problems)
    /\ gpc' = "done"
    /\ UNCHANGED <<execVars, selVars, benchVars, marshalVars, stratVars, grader, problems, solutions, pIdx, sIdx, tIdx,
                   number_correct, total_tests, issues, solutionGrades, parentGlobals,
                   execSites, curRuns, gradeRuns>>

\* the solution's grade is appended and the inner loop moves on
AppendGrade(grade) ==
    /\ solutionGrades' = Append(solutionGrades, grade)
    /\ gradeRuns' = Append(gradeRuns, curRuns')
    /\ sIdx' = sIdx + 1
    /\ gpc' = "solutions"

-----------------------------------------------------------------------------
(* CorrectnessGrader.grade *)

\* floor division in place of true division
CorrectnessScore_FloorDivision(correct, total) ==
    IF total > 0 THEN Ratio(correct \div total, 1) ELSE Zero

\* lines 108-110
CorrectnessScore(correct, total) ==
    IF total > 0 THEN Ratio(correct, total) ELSE Zero

ErrorIssue(test_case, run) ==
    [kind |-> "error", test_case |-> test_case, error |-> run.error, traceback |-> run.traceback]

FailedIssue(test_case, expected, actual) ==
    [kind |-> "failed", test_case |-> test_case, expected |-> expected, actual |-> actual]

\* a run that ends with an error is not reported
TestCaseTally_ErrorNotReported(correct, issue_list, test_case, expected, run) ==
    IF Truthy(run.error)
    THEN [number_correct |-> correct, issues |-> issue_list]
    ELSE IF PyEq(expected, run.result)
    THEN [number_correct |-> correct + 1, issues |-> issue_list]
    ELSE [number_correct |-> correct,
          issues |-> Append(issue_list, FailedIssue(test_case, expected, run.result))]

\* lines 97-106: the counter and the issue list after a test case
TestCaseTally(correct, issue_list, test_case, expected, run) ==
    IF Truthy(run.error)
    THEN [number_correct |-> correct, issues |-> Append(issue_list, ErrorIssue(test_case, run))]
    ELSE IF PyEq(expected, run.result)
    THEN [number_correct |-> correct + 1, issues |-> issue_list]
    ELSE [number_correct |-> correct,
          issues |-> Append(issue_list, FailedIssue(test_case, expected, run.result))]

\* lines 90-106: one test case. run_function marshals the arguments (an
\* exception there leaves grade), the sandbox runs the candidate,
\* get_return_values marshals the expected output (likewise), and the
\* outcome is counted.
CorrectnessRunTestCase ==
    /\ gpc = "tests"
    /\ grader = "correctness"
    /\ tIdx <= Len(problem.correctness_test_suite)
    /\ LET proto     == problem.function_prototype
           test_case == problem.correctness_test_suite[tIdx]
           args      == get_ordered_parameter_values(proto, test_case)
           expected  == get_return_values(proto, test_case)
       IN  IF ~args.ok \/ ExecutionRebound
           THEN /\ gpc' = "raised"
                /\ UNCHANGED <<tIdx, number_correct, total_tests, issues, execSites, curRuns>>
           ELSE \E run \in SandboxResults(solution.solution_code, args.v, FALSE, FALSE) :
                /\ execSites' = execSites \cup {"child"}
                /\ IF ~expected.ok
                   THEN /\ gpc' = "raised"
                        /\ UNCHANGED <<tIdx, number_correct, total_tests, issues, curRuns>>
                   ELSE /\ total_tests' = total_tests + 1
                        /\ curRuns' = Append(curRuns, [outcome |-> run, expected |-> expected.v])
                        /\ tIdx' = tIdx + 1
                        /\ UNCHANGED gpc
                        /\ LET tally == TestCaseTally(number_correct, issues, test_case,
                                                      expected.v, run)
                           IN  /\ number_correct' = tally.number_correct
                               /\ issues' = tally.issues
    /\ UNCHANGED <<execVars, selVars, benchVars, marshalVars, stratVars, grader, problems, solutions, pIdx, sIdx,
                   solutionGrades, parentGlobals, gradeRuns>>

\* lines 108-113: the suite is exhausted: the score and the grade
CorrectnessFinishSolution ==
    /\ gpc = "tests"
    /\ grader = "correctness"
    /\ tIdx > Len(problem.correctness_test_suite)
    /\ UNCHANGED curRuns
    /\ AppendGrade(SolutionGrade(problem.identifier, solution.prompt_identifier,
                                 solution.model_identifier,
                                 CorrectnessScore(number_correct, total_tests),
                                 None, PyList(issues)))
    /\ UNCHANGED <<execVars, selVars, benchVars, marshalVars, stratVars, grader, problems, solutions, pIdx, tIdx, number_correct,
                   total_tests, issues, parentGlobals, execSites>>

-----------------------------------------------------------------------------
(* ReuseGrader.grade *)

\* what exec of a solution's source does: the names it binds, each with the
\* names its code refers to (__code__.co_names), and whether the source
\* then raises. codeA is `def f(a): return parent(a)`, codeB defines g only,
\* codeC raises, codeD is codeA followed by `execution = None`
ReuseProfile(code) ==
    CASE code = PyStr("codeA") ->
            [defines |-> <<[name |-> "f", co_names |-> {"parent"}]>>, raises |-> FALSE]
      [] code = PyStr("codeB") ->
            [defines |-> <<[name |-> "g", co_names |-> {"len"}]>>, raises |-> FALSE]
      [] code = PyStr("codeC") ->
            [defines |-> <<>>, raises |-> TRUE]
      [] code = PyStr("codeD") ->
            [defines |-> <<[name |-> "f", co_names |-> {"parent"}],
                           [name |-> "execution", co_names |-> {}]>>, raises |-> FALSE]

RECURSIVE BindAll(_, _, _)
BindAll(d, defs, k) ==
    IF k > Len(defs) THEN d
    ELSE BindAll(DictSet(d, defs[k].name, [co_names |-> defs[k].co_names]), defs, k + 1)

\* line 482: globals() after exec(code, globals()), starting from d
ExecInto(d, code) == BindAll(d, ReuseProfile(code).defines, 1)

\* lines 479-487: cur_grade of solution s of problem p when the grading
\* process's globals are d before the exec
ReuseCurGrade(d, p, s) ==
    LET target == Lookup(ExecInto(d, s.solution_code), p.function_prototype.function_name)
    IN  IF ReuseProfile(s.solution_code).raises \/ ~target.ok THEN 0
        ELSE IF p.parent_function_name \in target.v.co_names THEN 1 ELSE 0

\* lines 479-490: exec(solution.solution_code, globals()) in the grading
\* process, then the look-up of the function's co_names; any exception gives
\* grade 0
ReuseGradeSolution ==
    /\ gpc = "tests"
    /\ grader = "code_reuse"
    /\ LET globals   == ExecInto(parentGlobals, solution.solution_code)
           cur_grade == ReuseCurGrade(parentGlobals, problem, solution)
       IN  /\ parentGlobals' = globals
           /\ execSites' = execSites \cup {"parent"}
           /\ UNCHANGED curRuns
           /\ AppendGrade(SolutionGrade(problem.identifier, solution.prompt_identifier,
                                        solution.model_identifier, Ratio(cur_grade, 1),
                                        None, None))
    /\ UNCHANGED <<execVars, selVars, benchVars, marshalVars, stratVars, grader, problems, solutions, pIdx, tIdx, number_correct,
                   total_tests, issues>>

-----------------------------------------------------------------------------
(* PerformanceGrader.grade and MemoryGrader.grade *)

\* the quotient without the clamp
RelativeScore_NoClamp(optimal, candidate) == Ratio(optimal, candidate)

\* lines 156 and 203: min(1, optimal / candidate), for candidate > 0
RelativeScore(optimal, candidate) ==
    IF optimal >= candidate THEN Ratio(1, 1) ELSE Ratio(optimal, candidate)

\* the solution is left without a grade
NoGrade ==
    /\ sIdx' = sIdx + 1
    /\ gpc' = "solutions"
    /\ UNCHANGED <<solutionGrades, gradeRuns>>

\* what is kept of a pair of runs: for each side the source, the arguments
\* iterations, collect_cpu_time and collect_memory_usage of its
\* Grader.run_function call, and the metrics of the outcome
RunPair(solution_results, optimal_results, n, cpu, mem) ==
    [solution |-> [code |-> solution_results.function_code, cpu_time |-> solution_results.cpu_time,
                   peak_memory |-> solution_results.peak_memory,
                   iterations |-> n, collect_cpu_time |-> cpu, collect_memory_usage |-> mem],
     optimal  |-> [code |-> optimal_results.function_code, cpu_time |-> optimal_results.cpu_time,
                   peak_memory |-> optimal_results.peak_memory,
                   iterations |-> n, collect_cpu_time |-> cpu, collect_memory_usage |-> mem],
     iterations |-> n, test |-> tIdx]

\* line 150: either accumulated total exceeds the threshold
ThresholdExceeded(solution_total, optimal_total) ==
    solution_total > TimeThresholdTicks \/ optimal_total > TimeThresholdTicks

\* the iterations are doubled
NextIterations_Doubled(n) == n * 2

\* line 153: iterations *= 10
NextIterations(n) == n * 10

\* the totals start again at 0 with every test case
AfterRound_TotalsPerTestCase(solution_total, optimal_total, n, solution_results, optimal_results) ==
    IF solution_results.cpu_time = None \/ optimal_results.cpu_time = None
    THEN [break |-> TRUE, iterations |-> n,
          total_solution_time |-> 0, total_optimal_time |-> 0]
    ELSE LET solution_time == solution_total + solution_results.cpu_time.n
             optimal_time  == optimal_total + optimal_results.cpu_time.n
         IN  IF ThresholdExceeded(solution_time, optimal_time)
             THEN [break |-> TRUE, iterations |-> n,
                   total_solution_time |-> 0, total_optimal_time |-> 0]
             ELSE [break |-> FALSE, iterations |-> NextIterations(n),
                   total_solution_time |-> solution_time, total_optimal_time |-> optimal_time]

\* each side's time is added whenever that side reports one
AfterRound_EachSideAlone(solution_total, optimal_total, n, solution_results, optimal_results) ==
    LET solution_time == solution_total + (IF solution_results.cpu_time = None THEN 0
                                           ELSE solution_results.cpu_time.n)
        optimal_time  == optimal_total + (IF optimal_results.cpu_time = None THEN 0
                                          ELSE optimal_results.cpu_time.n)
    IN  IF solution_results.cpu_time = None \/ optimal_results.cpu_time = None
        THEN [break |-> TRUE, iterations |-> n,
              total_solution_time |-> solution_time, total_optimal_time |-> optimal_time]
        ELSE IF ThresholdExceeded(solution_time, optimal_time)
             THEN [break |-> TRUE, iterations |-> n,
                   total_solution_time |-> solution_time, total_optimal_time |-> optimal_time]
             ELSE [break |-> FALSE, iterations |-> NextIterations(n),
                   total_solution_time |-> solution_time, total_optimal_time |-> optimal_time]

\* lines 143-153: what a round's two outcomes do to the totals and to the
\* loop: break on a missing time, else accumulate, then break on a total
\* above the threshold, else iterations *= 10
AfterRound(solution_total, optimal_total, n, solution_results, optimal_results) ==
    IF solution_results.cpu_time = None \/ optimal_results.cpu_time = None
    THEN [break |-> TRUE, iterations |-> n,
          total_solution_time |-> solution_total, total_optimal_time |-> optimal_total]
    ELSE LET solution_time == solution_total + solution_results.cpu_time.n
             optimal_time  == optimal_total + optimal_results.cpu_time.n
         IN  IF ThresholdExceeded(solution_time, optimal_time)
             THEN [break |-> TRUE, iterations |-> n,
                   total_solution_time |-> solution_time, total_optimal_time |-> optimal_time]
             ELSE [break |-> FALSE, iterations |-> NextIterations(n),
                   total_solution_time |-> solution_time, total_optimal_time |-> optimal_time]

\* Grader.run_function, line 46: the arguments of the test case at hand
RoundArguments ==
    get_ordered_parameter_values(problem.function_prototype,
                                 problem.correctness_test_suite[tIdx])

\* lines 133-153: one round of a test case: the candidate and the reference
\* run with the round's iterations and CPU-time measurement; the rounds of
\* the test case end when a side reports no time or a total exceeds the
\* threshold, otherwise the iterations are multiplied by 10; the outcomes
\* of the two runs are drawn from the given sets
PerformanceRoundOf(solution_outcomes, optimal_outcomes) ==
    /\ gpc = "tests"
    /\ grader = "performance"
    /\ tIdx <= Len(problem.correctness_test_suite)
    /\ LET args == RoundArguments
       IN  IF ~args.ok \/ ExecutionRebound
           THEN /\ gpc' = "raised"
                /\ UNCHANGED <<tIdx, perf_iterations, total_solution_time, total_optimal_time,
                               execSites, curRuns>>
           ELSE \E solution_results \in solution_outcomes, optimal_results \in optimal_outcomes :
                /\ execSites' = execSites \cup {"child"}
                /\ curRuns' = Append(curRuns, RunPair(solution_results, optimal_results, perf_iterations, TRUE, FALSE))
                /\ UNCHANGED gpc
                /\ LET after == AfterRound(total_solution_time, total_optimal_time,
                                           perf_iterations, solution_results, optimal_results)
                   IN  /\ total_solution_time' = after.total_solution_time
                       /\ total_optimal_time' = after.total_optimal_time
                       /\ IF after.break
                          THEN /\ tIdx' = tIdx + 1
                               /\ perf_iterations' = 1
                          ELSE /\ perf_iterations' = after.iterations
                               /\ UNCHANGED tIdx
    /\ UNCHANGED <<execVars, selVars, benchVars, marshalVars, grader, problems, solutions, pIdx, sIdx,
                   number_correct, total_tests, issues, solutionGrades, parentGlobals, gradeRuns,
                   total_solution_peak_memory, total_optimal_peak_memory>>

\* a round whose outcomes are any the sandbox can produce; the rounds of a
\* test case are followed up to iterations 10 ^ (MaxRounds - 1)
PerformanceRound ==
    /\ perf_iterations < 10 ^ MaxRounds
    /\ PerformanceRoundOf(
            SandboxResults(solution.solution_code, RoundArguments.v, TRUE, FALSE),
            SandboxResults(problem.optimal_solution, RoundArguments.v, TRUE, FALSE))

\* lines 155-159: a grade is appended only if the candidate's total is > 0
PerformanceFinishSolution ==
    /\ gpc = "tests"
    /\ grader = "performance"
    /\ tIdx > Len(problem.correctness_test_suite)
    /\ UNCHANGED curRuns
    /\ IF total_solution_time > 0
       THEN AppendGrade(SolutionGrade(problem.identifier, solution.prompt_identifier,
                                      solution.model_identifier,
                                      RelativeScore(total_optimal_time, total_solution_time),
                                      None, PyList(issues)))
       ELSE NoGrade
    /\ UNCHANGED <<execVars, selVars, benchVars, marshalVars, stratVars, grader, problems, solutions,
                   pIdx, tIdx, number_correct, total_tests, issues, parentGlobals, execSites>>

\* a side that reports no peak counts as zero
PeakTotals_MissingAsZero(solution_total, optimal_total, solution_results, optimal_results) ==
    [solution |-> solution_total + (IF solution_results.peak_memory = None THEN 0
                                    ELSE solution_results.peak_memory.n),
     optimal  |-> optimal_total + (IF optimal_results.peak_memory = None THEN 0
                                   ELSE optimal_results.peak_memory.n)]

\* lines 196-200: the totals after a test case; `continue` when a side
\* reports no peak
PeakTotals(solution_total, optimal_total, solution_results, optimal_results) ==
    IF solution_results.peak_memory = None \/ optimal_results.peak_memory = None
    THEN [solution |-> solution_total, optimal |-> optimal_total]
    ELSE [solution |-> solution_total + solution_results.peak_memory.n,
          optimal  |-> optimal_total + optimal_results.peak_memory.n]

\* lines 190-200: one test case: the candidate and the reference run with 10
\* iterations and memory tracing; the test case is skipped when a side
\* reports no peak
MemoryRunTestCase ==
    /\ gpc = "tests"
    /\ grader = "memory"
    /\ tIdx <= Len(problem.correctness_test_suite)
    /\ LET proto     == problem.function_prototype
           test_case == problem.correctness_test_suite[tIdx]
           args      == get_ordered_parameter_values(proto, test_case)
       IN  IF ~args.ok \/ ExecutionRebound
           THEN /\ gpc' = "raised"
                /\ UNCHANGED <<tIdx, total_solution_peak_memory, total_optimal_peak_memory,
                               execSites, curRuns>>
           ELSE \E solution_results \in SandboxResults(solution.solution_code, args.v, FALSE, TRUE),
                   optimal_results \in SandboxResults(problem.optimal_solution, args.v, FALSE, TRUE) :
                /\ execSites' = execSites \cup {"child"}
                /\ curRuns' = Append(curRuns, RunPair(solution_results, optimal_results, MemoryIterations, FALSE, TRUE))
                /\ tIdx' = tIdx + 1
                /\ UNCHANGED gpc
                /\ LET totals == PeakTotals(total_solution_peak_memory, total_optimal_peak_memory,
                                            solution_results, optimal_results)
                   IN  /\ total_solution_peak_memory' = totals.solution
                       /\ total_optimal_peak_memory' = totals.optimal
    /\ UNCHANGED <<execVars, selVars, benchVars, marshalVars, grader, problems, solutions, pIdx, sIdx,
                   number_correct, total_tests, issues, solutionGrades, parentGlobals, gradeRuns,
                   perf_iterations, total_solution_time, total_optimal_time>>

\* lines 202-207: a grade is appended only if the candidate's total is > 0
MemoryFinishSolution ==
    /\ gpc = "tests"
    /\ grader = "memory"
    /\ tIdx > Len(problem.correctness_test_suite)
    /\ UNCHANGED curRuns
    /\ IF total_solution_peak_memory > 0
       THEN AppendGrade(SolutionGrade(problem.identifier, solution.prompt_identifier,
                                      solution.model_identifier,
                                      RelativeScore(total_optimal_peak_memory, total_solution_peak_memory),
                                      None, PyList(issues)))
       ELSE NoGrade
    /\ UNCHANGED <<execVars, selVars, benchVars, marshalVars, stratVars, grader, problems, solutions,
                   pIdx, tIdx, number_correct, total_tests, issues, parentGlobals, execSites>>

NextGrade ==
    \/ SkipSolution
    \/ BeginSolution
    \/ NextProblem
    \/ GradeReturn
    \/ CorrectnessRunTestCase
    \/ CorrectnessFinishSolution
    \/ ReuseGradeSolution
    \/ PerformanceRound
    \/ PerformanceFinishSolution
    \/ MemoryRunTestCase
    \/ MemoryFinishSolution

SpecGrade == InitGrade /\ [][NextGrade]_vars

-----------------------------------------------------------------------------
(* PerformanceGrader.grade with runs whose duration grows with the
   iterations *)

\* the fastest function followed makes this many calls in a second of
\* wall-clock time
FastestCallsPerSecond == 10 ^ (MaxRounds - 1)

\* a run of n calls lasts at least n / FastestCallsPerSecond seconds: from
\* this n on it outlasts the join of execute_function
OutlastsJoin(n) == n >= JoinTimeoutSeconds * FastestCallsPerSecond

\* execute_function without the timeout of its join: it returns only when
\* the child has ended
TimedSandboxResults_JoinWithoutTimeout(code, params, n) ==
    IF OutlastsJoin(n) THEN {} ELSE SandboxResults(code, params, TRUE, FALSE)

\* src/execution.py, lines 132-143: a run that outlasts the join returns
\* without a cpu_time (the timeout result, or an error of a child that
\* ended early); a shorter run returns any outcome, a timeout included
TimedSandboxResults(code, params, n) ==
    {r \in SandboxResults(code, params, TRUE, FALSE) : OutlastsJoin(n) => r.cpu_time = None}

\* lines 133-153 with these runs
PerformanceRoundTimed ==
    PerformanceRoundOf(
        TimedSandboxResults(solution.solution_code, RoundArguments.v, perf_iterations),
        TimedSandboxResults(problem.optimal_solution, RoundArguments.v, perf_iterations))

InitPerformance == InitGrade /\ grader = "performance"

NextPerformance ==
    \/ SkipSolution
    \/ BeginSolution
    \/ NextProblem
    \/ GradeReturn
    \/ PerformanceRoundTimed
    \/ PerformanceFinishSolution

\* grade is sequential code: it takes its next step whenever it has one
SpecPerformance == InitPerformance /\ [][NextPerformance]_vars /\ WF_vars(NextPerformance)

-----------------------------------------------------------------------------
(* Properties of the grading strategies, checked under SpecGrade *)

\* C9: no grading strategy executes candidate source code inside the
\* grading (parent) process: candidate code only ever runs in a child
\* process spawned by execute_function.
C9_NoInlineExecution == "parent" \notin execSites

ProblemOf(grade) ==
    CHOOSE q \in {problems[k] : k \in 1..Len(problems)} : q.identifier = grade.problem_identifier

\* the runs whose result equals the expected return
RunsEqualExpected(runs) ==
    {k \in 1..Len(runs) : runs[k].outcome.result = runs[k].expected}

\* the runs that report no error (None or an empty text) and whose result
\* equals the expected return
RunsPassed(runs) ==
    {k \in 1..Len(runs) : ~Truthy(runs[k].outcome.error)
                          /\ runs[k].outcome.result = runs[k].expected}

ScoreIs(score, n, d) ==
    IF d = 0 THEN score.num = 0 ELSE score.num * d = n * score.den

\* C10 as stated: the Correctness score is (number of test cases whose
\* sandbox result equals the coerced expected return) / (number of test
\* cases), and 0 for an empty suite.
C10_ScoreIsEqualResultsOverTotal ==
    grader = "correctness" =>
        \A k \in 1..Len(solutionGrades) :
            ScoreIs(solutionGrades[k].score,
                    Cardinality(RunsEqualExpected(gradeRuns[k])),
                    Len(ProblemOf(solutionGrades[k]).correctness_test_suite))

\* C10 as amended: the Correctness score is (number of test cases whose run
\* reports no error text and whose result equals the coerced expected
\* return) / (number of test cases), and 0 for an empty suite.
C10_ScoreIsPassedOverTotal ==
    grader = "correctness" =>
        \A k \in 1..Len(solutionGrades) :
            /\ solutionGrades[k].score.den > 0
            /\ ScoreIs(solutionGrades[k].score,
                       Cardinality(RunsPassed(gradeRuns[k])),
                       Len(ProblemOf(solutionGrades[k]).correctness_test_suite))

\* a graded solution with one test case passed and one failed by a run that
\* timed out although None was expected, and a graded empty suite
C10_Witness ==
    /\ grader = "correctness"
    /\ \E k \in 1..Len(solutionGrades) :
        /\ Len(gradeRuns[k]) = 2
        /\ Cardinality(RunsPassed(gradeRuns[k])) = 1
        /\ \E j \in 1..2 : /\ IsTimeoutResult(gradeRuns[k][j].outcome)
                           /\ gradeRuns[k][j].expected = None
        /\ solutionGrades[k].score = Ratio(1, 2)

\* the runs that failed: execute_function returned an error (of a timeout,
\* of an exception in the candidate, of an unreadable result file)
RunsFailed(runs) == {j \in 1..Len(runs) : runs[j].outcome.error # None}

\* the issues of a grade that carry the error text of a failed run
ErrorIssues(grade) ==
    {n \in 1..Len(grade.issues.items) : grade.issues.items[n].kind = "error"}

\* C11: in CorrectnessGrader.grade every test case whose sandbox run fails
\* (timeout, exception with any message, the empty one included, unreadable
\* result) is counted as failed and adds an issue with the error text, and
\* the remaining test cases of the solution are still executed.
C11_FailedRunsCountedAndReported ==
    grader = "correctness" =>
        \A k \in 1..Len(solutionGrades) :
            LET total  == Len(ProblemOf(solutionGrades[k]).correctness_test_suite)
                failed == Cardinality(RunsFailed(gradeRuns[k]))
            IN  /\ Len(gradeRuns[k]) = total
                /\ Cardinality(ErrorIssues(solutionGrades[k])) = failed
                /\ solutionGrades[k].score.num * total
                       <= (total - failed) * solutionGrades[k].score.den

\* the rounds (test cases) of a solution in which both sides reported `field`
BothReported(pair, field) == pair.solution[field] # None /\ pair.optimal[field] # None

\* the total of `field` on one side over the runs in which both sides
\* reported it
RECURSIVE TotalOf(_, _, _)
TotalOf(runs, side, field) ==
    IF runs = <<>> THEN 0
    ELSE (IF BothReported(Head(runs), field) THEN Head(runs)[side][field].n ELSE 0)
         + TotalOf(Tail(runs), side, field)

\* C12: every Relative Performance score that PerformanceGrader emits lies
\* in [0, 1] and equals min(1, total reference CPU time / total candidate CPU
\* time), the totals summed over all test cases; a candidate whose total is
\* less than or equal to the reference's scores exactly 1.
C12_PerformanceScoreClamped ==
    grader = "performance" =>
        \A k \in 1..Len(solutionGrades) :
            LET score     == solutionGrades[k].score
                candidate == TotalOf(gradeRuns[k], "solution", "cpu_time")
                reference == TotalOf(gradeRuns[k], "optimal", "cpu_time")
            IN  /\ score.den > 0
                /\ 0 <= score.num
                /\ score.num <= score.den
                /\ IF reference >= candidate
                   THEN score.num = score.den
                   ELSE score.num * candidate = reference * score.den

\* a grade over two test cases in which the reference's total exceeds the
\* candidate's, and a second round was run
C12_Witness ==
    /\ grader = "performance"
    /\ \E k \in 1..Len(solutionGrades) :
        /\ \E j \in 1..Len(gradeRuns[k]) : gradeRuns[k][j].test = 2
        /\ \E j \in 1..Len(gradeRuns[k]) : gradeRuns[k][j].iterations = 10
        /\ TotalOf(gradeRuns[k], "solution", "cpu_time") > 0
        /\ TotalOf(gradeRuns[k], "optimal", "cpu_time") > TotalOf(gradeRuns[k], "solution", "cpu_time")
        /\ solutionGrades[k].score = Ratio(1, 1)

\* C13: when the candidate's accumulated total CPU time for a solution is 0
\* (every round failed to report a time, or the suite is empty),
\* PerformanceGrader produces a SolutionGrade for that solution with score 0.
C13_ZeroTotalGivesZeroScore ==
    [][(/\ grader = "performance"
        /\ gpc = "tests"
        /\ gpc' = "solutions"
        /\ TotalOf(curRuns, "solution", "cpu_time") = 0)
       => /\ Len(solutionGrades') = Len(solutionGrades) + 1
          /\ solutionGrades'[Len(solutionGrades')].problem_identifier = problem.identifier
          /\ solutionGrades'[Len(solutionGrades')].prompt_identifier = solution.prompt_identifier
          /\ solutionGrades'[Len(solutionGrades')].score.num = 0]_vars

ProblemIdentifiers == {problems[k].identifier : k \in 1..Len(problems)}

SameSolution(grade, s) ==
    /\ grade.problem_identifier = s.problem_identifier
    /\ grade.prompt_identifier = s.prompt_identifier
    /\ grade.model_identifier = s.model_identifier

\* the grades of the output that are of solution s
GradesOf(s) == {k \in 1..Len(solutionGrades) : SameSolution(solutionGrades[k], s)}

SolutionOf(grade) ==
    CHOOSE s \in {solutions[j] : j \in 1..Len(solutions)} : SameSolution(grade, s)

\* the runs behind grade k are runs of the graded solution on the test cases,
\* and against the reference, of the problem with the solution's identifier
ScoredAgainstOwnProblem(k) ==
    LET own  == ProblemOf(solutionGrades[k])
        code == SolutionOf(solutionGrades[k]).solution_code
        runs == gradeRuns[k]
    IN  CASE grader = "correctness" ->
                /\ Len(runs) = Len(own.correctness_test_suite)
                /\ \A j \in 1..Len(runs) :
                    /\ runs[j].outcome.function_code = code
                    /\ Ok(runs[j].expected) =
                           get_return_values(own.function_prototype, own.correctness_test_suite[j])
          [] grader \in {"performance", "memory"} ->
                \A j \in 1..Len(runs) :
                    /\ runs[j].solution.code = code
                    /\ runs[j].optimal.code = own.optimal_solution
                    /\ runs[j].test \in 1..Len(own.correctness_test_suite)
          [] OTHER -> runs = <<>>

\* C14: for every strategy's grade(problems, solutions) the output holds
\* exactly one SolutionGrade for each solution whose problem_identifier is
\* the identifier of a problem of the set and none for any other solution,
\* and a solution is scored only against the test cases and the reference of
\* the problem with its own identifier.
C14_OneGradePerMatchingSolution ==
    /\ \A k \in 1..Len(solutionGrades) :
        /\ solutionGrades[k].problem_identifier \in ProblemIdentifiers
        /\ ScoredAgainstOwnProblem(k)
    /\ gpc = "done" =>
        \A j \in 1..Len(solutions) :
            Cardinality(GradesOf(solutions[j])) =
                IF solutions[j].problem_identifier \in ProblemIdentifiers THEN 1 ELSE 0

-----------------------------------------------------------------------------
(* grader.py: can_grade *)

\* lines 51-61, Grader.can_grade, inherited by CorrectnessGrader,
\* MemoryGrader and HumanLikeGrader (identifier and function_prototype are
\* objects in every problem of the model)
Grader_can_grade(ps) ==
    \A k \in 1..Len(ps) : ps[k].prompts # None /\ Len(ps[k].prompts.items) > 0

\* lines 162-171, PerformanceGrader.can_grade
PerformanceGrader_can_grade(ps) ==
    \A k \in 1..Len(ps) :
        /\ ps[k].prompts # None
        /\ ps[k].optimal_solution # None
        /\ Len(ps[k].prompts.items) > 0

\* lines 460-468, ReuseGrader.can_grade
ReuseGrader_can_grade(ps) ==
    \A k \in 1..Len(ps) :
        /\ ps[k].prompts # None
        /\ Len(ps[k].prompts.items) > 0
        /\ "parent_function_prototype" \in ps[k].additional_fields

\* grader.can_grade(problem_definitions) of the strategy named `name`
can_grade(name, ps) ==
    CASE name = "performance" -> PerformanceGrader_can_grade(ps)
      [] name = "code_reuse"  -> ReuseGrader_can_grade(ps)
      [] OTHER                -> Grader_can_grade(ps)

-----------------------------------------------------------------------------
(* benchmark.py: grade_solutions *)

SolutionM1 == LLMSolution("p1", "m1", "prompt1", PyStr("codeA"))
SolutionM2 == LLMSolution("p1", "m2", "prompt1", PyStr("codeB"))
SolutionM3 == LLMSolution("p1", "m3", "prompt1", PyStr("codeD"))

\* line 49: serialization.get_solutions(base_path, model.model_identifier)
get_solutions(model) ==
    CASE model = "m1" -> <<SolutionM1>>
      [] model = "m2" -> <<SolutionM2>>
      [] model = "m3" -> <<SolutionM3>>

BenchGraderLists ==
    { <<"code_reuse">>, <<"correctness", "code_reuse">>, <<"code_reuse", "memory">>,
      <<"performance", "code_reuse">>, <<"memory", "performance">>,
      <<"correctness", "code_reuse", "correctness">> }

BenchModelLists == { <<"m2">>, <<"m1", "m2">>, <<"m3">> }

\* problem sets: complete; without a reference solution; without a parent
\* function; without prompts; with a test case whose expected output is no
\* int; with an empty suite
BenchProblemSets ==
    LET good == TestCase(ArgOne, <<PyStr(<<"1">>)>>)
        bad  == TestCase(ArgOne, <<PyStr(<<"x">>)>>)
    IN  { <<q, ProblemEmpty>> : q \in
            { ProblemDefinition("p1", TwoPrompts, PrototypeF, <<good>>, PyStr("optimalF"), "parent"),
              ProblemDefinition("p1", TwoPrompts, PrototypeF, <<good>>, None, "parent"),
              ProblemDefinition("p1", TwoPrompts, PrototypeF, <<good>>, PyStr("optimalF"), ""),
              ProblemDefinition("p1", PyList(<<>>), PrototypeF, <<good>>, PyStr("optimalF"), "parent"),
              ProblemDefinition("p1", TwoPrompts, PrototypeF, <<bad>>, PyStr("optimalF"), "parent"),
              ProblemDefinition("p1", TwoPrompts, PrototypeF, <<>>, PyStr("optimalF"), "parent") } }

InitBench ==
    /\ ExecIdle
    /\ SelIdle
    /\ MarshalIdle
    /\ graders \in BenchGraderLists
    /\ models \in BenchModelLists
    /\ problems \in BenchProblemSets
    /\ gIdx = 1
    /\ mIdx = 1
    /\ bpc = "graders"
    /\ gradingOutputs = <<>>
    /\ saved = <<>>
    /\ gradeCalls = <<>>
    /\ grader = "none"
    /\ solutions = <<>>
    /\ gpc = "idle"
    /\ pIdx = 1
    /\ sIdx = 1
    /\ tIdx = 1
    /\ number_correct = 0
    /\ total_tests = 0
    /\ issues = <<>>
    /\ solutionGrades = <<>>
    /\ parentGlobals = <<>>
    /\ execSites = {}
    /\ curRuns = <<>>
    /\ gradeRuns = <<>>
    /\ StratFresh

gradeLoopVars == <<grader, solutions, gpc, pIdx, sIdx, tIdx, number_correct, total_tests, issues,
                   solutionGrades, curRuns, gradeRuns>>

\* lines 44-46: the strategy's can_grade decides between its models and the
\* next strategy
BenchCanGrade ==
    /\ bpc = "graders"
    /\ gIdx <= Len(graders)
    /\ IF can_grade(graders[gIdx], problems)
       THEN /\ bpc' = "models"
            /\ mIdx' = 1
            /\ UNCHANGED gIdx
       ELSE /\ gIdx' = gIdx + 1
            /\ UNCHANGED <<bpc, mIdx>>
    /\ UNCHANGED <<execVars, selVars, marshalVars, stratVars, gradeLoopVars, problems, parentGlobals,
                   execSites, graders, models, gradingOutputs, saved, gradeCalls>>

\* lines 47-50: the model's solutions are loaded and grade is called; the
\* globals of the grading process are those the earlier calls left
BenchCallGrade ==
    /\ bpc = "models"
    /\ mIdx <= Len(models)
    /\ bpc' = "grading"
    /\ gradeCalls' = Append(gradeCalls, [grader |-> gIdx, model |-> mIdx, saved |-> Len(saved),
                                         runs |-> <<>>])
    /\ grader' = graders[gIdx]
    /\ solutions' = get_solutions(models[mIdx])
    /\ gpc' = "solutions"
    /\ pIdx' = 1
    /\ sIdx' = 1
    /\ tIdx' = 1
    /\ number_correct' = 0
    /\ total_tests' = 0
    /\ issues' = <<>>
    /\ solutionGrades' = <<>>
    /\ curRuns' = <<>>
    /\ gradeRuns' = <<>>
    /\ UNCHANGED <<execVars, selVars, marshalVars, stratVars, problems, parentGlobals, execSites,
                   graders, models, gIdx, mIdx, gradingOutputs, saved>>

\* what is kept of a call of grade after its return: the sandbox runs of a
\* correctness grading
CallRuns == IF grader = "correctness" THEN gradeRuns ELSE <<>>

\* the output is appended but not handed to save_grades
BenchSaveGrades_NotSaved ==
    /\ bpc = "grading"
    /\ gpc = "done"
    /\ gradingOutputs' = Append(gradingOutputs, GradingOutput(solutionGrades, grader))
    /\ mIdx' = mIdx + 1
    /\ bpc' = "models"
    /\ gpc' = "idle"
    /\ gradeCalls' = [gradeCalls EXCEPT ![Len(gradeCalls)].runs = CallRuns]
    /\ UNCHANGED <<execVars, selVars, marshalVars, stratVars, problems, parentGlobals, execSites,
                   grader, solutions, pIdx, sIdx, tIdx, number_correct, total_tests, issues,
                   solutionGrades, curRuns, gradeRuns, graders, models, gIdx, saved>>

\* lines 50-53: grade returned: the output goes to serialization.save_grades
\* and is appended to gradingOutputs
BenchSaveGrades ==
    /\ bpc = "grading"
    /\ gpc = "done"
    /\ saved' = Append(saved, GradingOutput(solutionGrades, grader))
    /\ gradingOutputs' = Append(gradingOutputs, GradingOutput(solutionGrades, grader))
    /\ mIdx' = mIdx + 1
    /\ bpc' = "models"
    /\ gpc' = "idle"
    /\ gradeCalls' = [gradeCalls EXCEPT ![Len(gradeCalls)].runs = CallRuns]
    /\ UNCHANGED <<execVars, selVars, marshalVars, stratVars, problems, parentGlobals, execSites,
                   grader, solutions, pIdx, sIdx, tIdx, number_correct, total_tests, issues,
                   solutionGrades, curRuns, gradeRuns, graders, models, gIdx>>

\* line 50: grade raised: grade_solutions has no handler, the exception
\* leaves it
BenchRaise ==
    /\ bpc = "grading"
    /\ gpc = "raised"
    /\ bpc' = "raised"
    /\ UNCHANGED <<execVars, selVars, marshalVars, stratVars, gradeLoopVars, problems, parentGlobals,
                   execSites, graders, models, gIdx, mIdx, gradingOutputs, saved, gradeCalls>>

\* lines 44, 47: the models are exhausted: next strategy
BenchNextGrader ==
    /\ bpc = "models"
    /\ mIdx > Len(models)
    /\ gIdx' = gIdx + 1
    /\ bpc' = "graders"
    /\ UNCHANGED <<execVars, selVars, marshalVars, stratVars, gradeLoopVars, problems, parentGlobals,
                   execSites, graders, models, mIdx, gradingOutputs, saved, gradeCalls>>

\* line 55: return gradingOutputs
BenchReturn ==
    /\ bpc = "graders"
    /\ gIdx > Len(graders)
    /\ bpc' = "returned"
    /\ UNCHANGED <<execVars, selVars, marshalVars, stratVars, gradeLoopVars, problems, parentGlobals,
                   execSites, graders, models, gIdx, mIdx, gradingOutputs, saved, gradeCalls>>

NextBench ==
    \/ BenchCanGrade
    \/ BenchCallGrade
    \/ BenchSaveGrades
    \/ BenchRaise
    \/ BenchNextGrader
    \/ BenchReturn
    \/ NextGrade

SpecBench == InitBench /\ [][NextBench]_vars

-----------------------------------------------------------------------------
(* Properties of grade_solutions, checked under SpecBench *)

\* the solutions stored for the models
StoredSolutions ==
    UNION {{get_solutions(models[m])[j] : j \in 1..Len(get_solutions(models[m]))} :
                m \in 1..Len(models)}

StoredSolutionOf(grade) == CHOOSE s \in StoredSolutions : SameSolution(grade, s)

\* C15: grading strategies are independent and order-commutative: the
\* output of a strategy is the same whether or not another grading ran
\* before it in the same process; no strategy leaves state behind that
\* changes a later result. For the reuse strategy, whose result is a
\* function of the problem and the solution: every grade it emits is the one
\* it emits in a process in which nothing was graded before.
C15_OutputIndependentOfEarlierGrading ==
    \A n \in 1..Len(gradingOutputs) :
        gradingOutputs[n].grader_identifier = "code_reuse" =>
            \A k \in 1..Len(gradingOutputs[n].solution_grades) :
                LET grade == gradingOutputs[n].solution_grades[k]
                IN  grade.score =
                        Ratio(ReuseCurGrade(<<>>, ProblemOf(grade), StoredSolutionOf(grade)), 1)

\* C16: no failure inside the grading core (a marshaling error on a test
\* case, a missing parameter, a candidate's execution failure, ...) leaves
\* grade_solutions as an exception.
C16_NoExceptionLeavesGradeSolutions == bpc # "raised"

\* the strategies whose score is relative to the reference solution
NeedsReference == {"performance", "memory", "humanlikeness"}

SomeProblemLacksReference ==
    \E k \in 1..Len(problems) : problems[k].optimal_solution = None

\* C17: for every strategy that needs a reference solution (relative
\* performance, relative memory, human-likeness) can_grade returns False
\* whenever a problem of the set has no optimal_solution, so grade_solutions
\* skips the strategy for the problem set and never calls its grade.
C17_CanGradeRequiresReference ==
    /\ \A k \in 1..Len(gradeCalls) :
        graders[gradeCalls[k].grader] \in NeedsReference => ~SomeProblemLacksReference
    /\ SomeProblemLacksReference =>
        \A name \in NeedsReference : ~can_grade(name, problems)

\* the (strategy, model) pairs of the strategies that accept the problem set
AcceptedPairs ==
    {pair \in (1..Len(graders)) \X (1..Len(models)) : can_grade(graders[pair[1]], problems)}

\* strategy-major, model-minor order of two calls
Before(a, b) == a.grader < b.grader \/ (a.grader = b.grader /\ a.model < b.model)

\* C18: grade_solutions calls grade only for strategies whose can_grade
\* accepts the problem set; for each such strategy and each model it
\* produces exactly one GradingOutput, hands it to save_grades before the
\* next (strategy, model) pair is graded, and returns the outputs in
\* strategy-major, model-minor order.
C18_OneSavedOutputPerAcceptedPair ==
    /\ \A k \in 1..Len(gradeCalls) :
        /\ can_grade(graders[gradeCalls[k].grader], problems)
        /\ gradeCalls[k].saved = k - 1
        /\ k > 1 => Before(gradeCalls[k - 1], gradeCalls[k])
    /\ Len(gradingOutputs) <= Len(gradeCalls)
    /\ Len(gradingOutputs) >= Len(gradeCalls) - 1
    /\ saved = gradingOutputs
    /\ \A k \in 1..Len(gradingOutputs) :
        /\ gradingOutputs[k].grader_identifier = graders[gradeCalls[k].grader]
        /\ \A n \in 1..Len(gradingOutputs[k].solution_grades) :
            gradingOutputs[k].solution_grades[n].model_identifier = models[gradeCalls[k].model]
    /\ bpc = "returned" =>
        /\ Len(gradingOutputs) = Cardinality(AcceptedPairs)
        /\ {<<gradeCalls[k].grader, gradeCalls[k].model>> : k \in 1..Len(gradeCalls)} = AcceptedPairs

\* grade_solutions returned after skipping a strategy and grading two models
\* with the other, with a grade in the second output
C18_Witness ==
    /\ bpc = "returned"
    /\ \E g \in 1..Len(graders) : ~can_grade(graders[g], problems)
    /\ Len(models) = 2
    /\ Len(gradingOutputs) = 2
    /\ Len(gradingOutputs[2].solution_grades) = 1

-----------------------------------------------------------------------------
(* base_types.py: the marshaler applied to one prototype and one test case *)

ParamA(type) == [name |-> "a", type |-> type]
ParamB(type) == [name |-> "b", type |-> type]

\* the declared parameter lists: (a: int), (a: bool), (a: int, b: int),
\* (b: int, a: str)
MarshalParameterLists ==
    { <<ParamA(TypeInt)>>,
      <<ParamA(TypeBool)>>,
      <<ParamA(TypeInt), ParamB(TypeInt)>>,
      <<ParamB(TypeInt), ParamA(TypeStr)>> }

\* the declared return values: one, two, three
MarshalReturnLists ==
    { <<[type |-> TypeInt]>>,
      <<[type |-> TypeInt], [type |-> TypeOptionalInt]>>,
      <<[type |-> TypeInt], [type |-> TypeInt], [type |-> TypeInt]>> }

MarshalPrototypes ==
    { FunctionPrototype("f", params, rets) :
        params \in MarshalParameterLists, rets \in MarshalReturnLists }

\* the literals of a test case: an int, and a text that is no int
MarshalLiterals == {PyStr(<<"1">>), PyStr(<<"x">>)}

\* the "input" object of a test case: any of the keys a, b, c with a literal
MarshalInputs ==
    UNION {[keys -> MarshalLiterals] : keys \in SUBSET {"a", "b"}}
        \cup {[name \in {"a", "b", "c"} |-> PyStr(<<"1">>)]}

\* expected_output lists of up to MaxExpected literals
MarshalExpected == SeqsUpTo(MarshalLiterals, MaxExpected)

MarshalTestCases ==
    { TestCase(input, expected) : input \in MarshalInputs, expected \in MarshalExpected }

\* validation.py lines 90-119; the test case is a JSON object whose "input"
\* is an object and whose "expected_output" is an array, so the checks of
\* lines 102-111 pass and the outcome is that of the try block
validate_test_case(test_case, function_prototype) ==
    LET params == get_ordered_parameter_values(function_prototype, test_case)
        expected_result == get_return_values(function_prototype, test_case)
    IN  IF ~params.ok
        THEN [valid |-> FALSE, message |-> <<"Got exception while parsing test case: ", params.e>>]
        ELSE IF ~expected_result.ok
        THEN [valid |-> FALSE, message |-> <<"Got exception while parsing test case: ", expected_result.e>>]
        ELSE [valid |-> TRUE, message |-> <<"">>]

InitMarshal ==
    /\ ExecIdle /\ SelIdle /\ GradeIdle /\ BenchIdle
    /\ marshal_prototype \in MarshalPrototypes
    /\ marshal_test_case \in MarshalTestCases
    /\ ordered_parameters = Pending
    /\ expected_return = Pending
    /\ mpc = "start"
    /\ validation = Pending
    /\ CoerceIdle

\* FunctionPrototype.get_ordered_parameter_values(test_case)
GetOrderedParameterValues ==
    /\ mpc # "idle"
    /\ ordered_parameters = Pending
    /\ ordered_parameters' = get_ordered_parameter_values(marshal_prototype, marshal_test_case)
    /\ mpc' = "get_ordered_parameter_values"
    /\ UNCHANGED <<execVars, selVars, gradeVars, benchVars,
                   marshal_prototype, marshal_test_case, expected_return,
                   validation, coerceVars>>

\* FunctionPrototype.get_return_values(test_case)
GetReturnValues ==
    /\ mpc # "idle"
    /\ expected_return = Pending
    /\ expected_return' = get_return_values(marshal_prototype, marshal_test_case)
    /\ mpc' = "get_return_values"
    /\ UNCHANGED <<execVars, selVars, gradeVars, benchVars,
                   marshal_prototype, marshal_test_case, ordered_parameters,
                   validation, coerceVars>>

\* validation.validate_test_case(test_case, function_prototype)
ValidateTestCase ==
    /\ mpc # "idle"
    /\ validation = Pending
    /\ validation' = validate_test_case(marshal_test_case, marshal_prototype)
    /\ mpc' = "validate_test_case"
    /\ UNCHANGED <<execVars, selVars, gradeVars, benchVars,
                   marshal_prototype, marshal_test_case, ordered_parameters,
                   expected_return, coerceVars>>

NextMarshal ==
    \/ GetOrderedParameterValues
    \/ GetReturnValues
    \/ ValidateTestCase

SpecMarshal == InitMarshal /\ [][NextMarshal]_vars

-----------------------------------------------------------------------------
(* Properties of the marshaler, checked under SpecMarshal *)

DeclaredArity == Len(marshal_prototype.return_values)

\* C19: when exactly one return value is declared get_return_values returns
\* a scalar and never a tuple; when two or more are declared it returns a
\* tuple whose length is the declared arity, also for a test case whose
\* expected_output has fewer or more entries than the prototype declares.
C19_ReturnShapeFollowsDeclaredArity ==
    (expected_return # Pending /\ expected_return.ok) =>
        /\ DeclaredArity = 1 => expected_return.v.t # "tuple"
        /\ DeclaredArity >= 2 =>
            /\ expected_return.v.t = "tuple"
            /\ Len(expected_return.v.items) = DeclaredArity

DeclaredParameters == marshal_prototype.parameters

ParameterAbsent(k) == DeclaredParameters[k].name \notin DOMAIN marshal_test_case.parameters

\* the coercion of the test case's value for the k-th declared parameter
CoercedParameter(k) ==
    get_python_type(DeclaredParameters[k].type,
                    marshal_test_case.parameters[DeclaredParameters[k].name])

\* a returned list holds one coerced value per declared parameter, position
\* k holding the coercion of test_case.parameters[name of parameter k]
OneValuePerDeclaredParameter ==
    /\ \A k \in 1..Len(DeclaredParameters) : ~ParameterAbsent(k)
    /\ ordered_parameters.v.t = "list"
    /\ Len(ordered_parameters.v.items) = Len(DeclaredParameters)
    /\ \A k \in 1..Len(DeclaredParameters) :
        /\ CoercedParameter(k).ok
        /\ ordered_parameters.v.items[k] = CoercedParameter(k).v

FirstAbsent ==
    CHOOSE k \in 1..Len(DeclaredParameters) : ParameterAbsent(k) /\ \A m \in 1..(k - 1) : ~ParameterAbsent(m)

\* C20 as stated: get_ordered_parameter_values returns one coerced value per
\* declared parameter in prototype order, and whenever a declared parameter
\* is absent from the test case it fails with the missing-parameter error
\* (KeyError).
C20_MissingParameterAlwaysKeyError ==
    ordered_parameters # Pending =>
        /\ ordered_parameters.ok => OneValuePerDeclaredParameter
        /\ (\E k \in 1..Len(DeclaredParameters) : ParameterAbsent(k)) =>
                ordered_parameters = Err("KeyError")

\* C20, amended: get_ordered_parameter_values returns one coerced value per
\* declared parameter in prototype order; when a declared parameter is
\* absent from the test case the call fails and returns no list: with the
\* missing-parameter error (KeyError) when every parameter declared before
\* the absent one coerces, and otherwise with the coercion error of the
\* first declared parameter that does not.
C20_MissingParameterNeverYieldsList ==
    ordered_parameters # Pending =>
        /\ ordered_parameters.ok => OneValuePerDeclaredParameter
        /\ (\E k \in 1..Len(DeclaredParameters) : ParameterAbsent(k)) =>
            /\ ~ordered_parameters.ok
            /\ IF \A m \in 1..(FirstAbsent - 1) : CoercedParameter(m).ok
               THEN ordered_parameters.e = "KeyError"
               ELSE \E m \in 1..(FirstAbsent - 1) :
                        /\ ~CoercedParameter(m).ok
                        /\ \A j \in 1..(m - 1) : CoercedParameter(j).ok
                        /\ ordered_parameters.e = CoercedParameter(m).e

\* the call was made for two declared parameters of which the first is in
\* the test case and coerces and the second is absent, and ended with KeyError
C20_Witness ==
    /\ ordered_parameters = Err("KeyError")
    /\ Len(DeclaredParameters) = 2
    /\ ~ParameterAbsent(1) /\ CoercedParameter(1).ok
    /\ ParameterAbsent(2)

-----------------------------------------------------------------------------
(* base_types.py: get_python_type applied to one type and one literal, and  *)
(* then to its own result                                                   *)

CoerceTypes ==
    {TypeInt, TypeStr, TypeBool, TypeOptionalInt, TypeOptionalStr, TypeOptionalBool}

\* JSON literals of a test case: texts (plain, quoted, quoted twice, with
\* escapes), null, a number and the two booleans
CoerceLiterals ==
    { PyStr(<<"1">>), PyStr(<<"x">>), PyStr(<<>>),
      PyStr(<<"'", "1", "'">>), PyStr(<<"'">>),
      PyStr(<<"\"", "'", "a", "'", "\"">>),
      PyStr(<<"'", "\"", "a", "\"", "'">>),
      PyStr(<<"t", "r", "u", "e">>), PyStr(<<"T", "r", "u", "e">>),
      PyStr(<<"f", "a", "l", "s", "e">>),
      PyStr(<<"a", "\\", "\\", "n">>), PyStr(<<"a", "\\", "n">>), PyStr(<<"a", "\\">>),
      None, PyInt(1), PyBool(TRUE), PyBool(FALSE) }

InitCoerce ==
    /\ ExecIdle /\ SelIdle /\ GradeIdle /\ BenchIdle
    /\ marshal_prototype = None
    /\ marshal_test_case = None
    /\ ordered_parameters = Pending
    /\ expected_return = Pending
    /\ mpc = "idle"
    /\ validation = Pending
    /\ coerce_type \in CoerceTypes
    /\ coerce_input \in CoerceLiterals
    /\ coerce_result = Pending
    /\ recoerce_result = Pending

\* get_python_type(param_type, input)
Coerce ==
    /\ coerce_type # <<>>
    /\ coerce_result = Pending
    /\ coerce_result' = get_python_type(coerce_type, coerce_input)
    /\ UNCHANGED <<execVars, selVars, gradeVars, benchVars,
                   marshal_prototype, marshal_test_case, ordered_parameters,
                   expected_return, mpc, validation,
                   coerce_type, coerce_input, recoerce_result>>

\* get_python_type(param_type, value) for the value the first call returned
CoerceAgain ==
    /\ coerce_result # Pending
    /\ coerce_result.ok
    /\ recoerce_result = Pending
    /\ recoerce_result' = get_python_type(coerce_type, coerce_result.v)
    /\ UNCHANGED <<execVars, selVars, gradeVars, benchVars,
                   marshal_prototype, marshal_test_case, ordered_parameters,
                   expected_return, mpc, validation,
                   coerce_type, coerce_input, coerce_result>>

NextCoerce ==
    \/ Coerce
    \/ CoerceAgain

SpecCoerce == InitCoerce /\ [][NextCoerce]_vars

-----------------------------------------------------------------------------
(* Properties of get_python_type and validate_test_case *)

\* C21: get_python_type is idempotent on values already in the target type:
\* for a declared type int, str, bool or Optional[...] of these and a literal
\* that coerces without error, coercing the coerced value again with the
\* same type gives the same value.
C21_CoercionIdempotent ==
    recoerce_result # Pending => recoerce_result = coerce_result

\* the text of a literal denotes a value of the declared type: an integer
\* for int, true or false (in any case) for bool, a well-formed container
\* for List[...]; every text is a str
Coercible(type, literal) ==
    LET ty   == StripOptional(type)
        text == IF literal.t = "str" THEN StripQuotes(literal.s) ELSE <<>>
    IN  \/ literal.t # "str"
        \/ ty = TypeStr
        \/ ty = TypeInt /\ ParseInt(text).ok
        \/ ty = TypeBool /\ [k \in 1..Len(text) |-> Lower(text[k])]
                                \in {<<"t", "r", "u", "e">>, <<"f", "a", "l", "s", "e">>}
        \/ ty = TypeListInt /\ LiteralEval(text).ok

\* a literal of the test case that its declared type cannot take
SomeLiteralNotCoercible ==
    \/ \E k \in 1..Len(DeclaredParameters) :
        /\ ~ParameterAbsent(k)
        /\ ~Coercible(DeclaredParameters[k].type,
                      marshal_test_case.parameters[DeclaredParameters[k].name])
    \/ \E k \in 1..Min(DeclaredArity, Len(marshal_test_case.expected_output)) :
        ~Coercible(marshal_prototype.return_values[k].type, marshal_test_case.expected_output[k])

\* C22: a test case literal that cannot be coerced to the declared type of
\* its parameter or return value (a text that is no number for int, a text
\* other than true/false for bool, ...) makes validate_test_case return
\* (False, message); it is never silently converted to a default value.
C22_UncoercibleLiteralFailsValidation ==
    (validation # Pending /\ SomeLiteralNotCoercible) => ~validation.valid

-----------------------------------------------------------------------------
(* Repeated correctness grading, checked under SpecBench *)

\* the calls of CorrectnessGrader.grade made so far
CorrectnessCalls ==
    {k \in 1..Len(gradeCalls) : graders[gradeCalls[k].grader] = "correctness"}

\* C23: correctness grading is deterministic: two runs of
\* CorrectnessGrader.grade on the same problems and solutions, also when
\* another grading ran in between, give identical scores and identical issue
\* lists when the candidate behaves the same in both (the sandbox runs of
\* the two gradings returned the same results); in particular the later one
\* returns grades as the earlier one did.
C23_CorrectnessGradingRepeatable ==
    \A c1, c2 \in CorrectnessCalls :
        (c1 < c2 /\ gradeCalls[c1].model = gradeCalls[c2].model) =>
            /\ ~(bpc = "raised" /\ c2 = Len(gradeCalls))
            /\ (c2 <= Len(gradingOutputs) /\ gradeCalls[c1].runs = gradeCalls[c2].runs) =>
                    gradingOutputs[c2].solution_grades = gradingOutputs[c1].solution_grades

-----------------------------------------------------------------------------
(* The child's iteration loop, checked under SpecExec *)

\* C24: for iterations >= 1 the child calls the function exactly
\* `iterations` times, one call after the other; the result placed in the
\* outcome is the return value of the final call, the reported cpu_time is
\* the sum of the per-call deltas and the reported peak_memory is the
\* maximum of the per-call peaks. (`result`, `total_time` and `peak_memory`
\* are the loop's variables after its last call.)
C24_FinalCallResultReported ==
    (Returned /\ path = "normal" /\ outcome.error = None /\ iterations >= 1) =>
        /\ i = iterations
        /\ outcome.result = result
        /\ collect_cpu_time => outcome.cpu_time = PyInt(total_time)
        /\ collect_memory_usage => outcome.peak_memory = PyInt(peak_memory)

-----------------------------------------------------------------------------
(* PerformanceGrader's rounds, checked under SpecGrade *)

\* a side of the round reported no cpu_time
MissingTime(round) == ~BothReported(round, "cpu_time")

\* the total of a side after the first k rounds of the solution
TotalAfter(runs, k, side) == TotalOf(SubSeq(runs, 1, k), side, "cpu_time")

\* round k is the last round of its test case
RoundStops(runs, k) ==
    \/ MissingTime(runs[k])
    \/ TotalAfter(runs, k, "solution") > TimeThresholdTicks
    \/ TotalAfter(runs, k, "optimal") > TimeThresholdTicks

\* round k is the first round of its test case
FirstRound(runs, k) == k = 1 \/ runs[k - 1].test # runs[k].test

-----------------------------------------------------------------------------
(* MemoryGrader's runs, checked under SpecGrade *)

\* the test case of run j is skipped: a side reported no peak_memory
Skipped(run) == ~BothReported(run, "peak_memory")

\* one run of each side per test case, in suite order, with iterations = 10
\* and memory measurement
OncePerTestCase(runs) ==
    \A j \in 1..Len(runs) :
        /\ runs[j].test = j
        /\ runs[j].solution.iterations = 10 /\ runs[j].optimal.iterations = 10
        /\ runs[j].solution.collect_memory_usage /\ runs[j].optimal.collect_memory_usage

\* C26: MemoryGrader runs the candidate and the reference exactly once per
\* test case, with iterations = 10 and memory measurement; a test case in
\* which a side reports no peak_memory adds nothing to either total; the
\* emitted score is min(1, total reference peak / total candidate peak)
\* over the test cases that were not skipped.
C26_MemoryScoreOverReportedTestCases ==
    grader = "memory" =>
        /\ OncePerTestCase(curRuns)
        /\ gpc = "tests" => Len(curRuns) = tIdx - 1
        /\ gpc \in {"tests", "raised"} =>
                /\ total_solution_peak_memory = TotalOf(curRuns, "solution", "peak_memory")
                /\ total_optimal_peak_memory = TotalOf(curRuns, "optimal", "peak_memory")
        /\ \A k \in 1..Len(solutionGrades) :
            LET score     == solutionGrades[k].score
                candidate == TotalOf(gradeRuns[k], "solution", "peak_memory")
                reference == TotalOf(gradeRuns[k], "optimal", "peak_memory")
            IN  /\ OncePerTestCase(gradeRuns[k])
                /\ Len(gradeRuns[k]) = Len(ProblemOf(solutionGrades[k]).correctness_test_suite)
                /\ candidate > 0
                /\ IF reference >= candidate
                   THEN score = Ratio(1, 1)
                   ELSE score.num * candidate = reference * score.den /\ score.den > 0

\* a grade over two test cases, one skipped because the reference reported
\* no peak while the candidate did, with a score below 1
C26_Witness ==
    /\ grader = "memory"
    /\ \E k \in 1..Len(solutionGrades) :
        /\ Len(gradeRuns[k]) = 2
        /\ \E j \in 1..2 : /\ gradeRuns[k][j].optimal.peak_memory = None
                           /\ gradeRuns[k][j].solution.peak_memory # None
        /\ \E j \in 1..2 : ~Skipped(gradeRuns[k][j])
        /\ solutionGrades[k].score.num < solutionGrades[k].score.den

-----------------------------------------------------------------------------
(* CorrectnessGrader's tally, checked under SpecGrade *)

\* the runs that line 100 counts correct
CountedCorrect(runs) ==
    {j \in 1..Len(runs) : /\ ~Truthy(runs[j].outcome.error)
                          /\ PyEq(runs[j].expected, runs[j].outcome.result)}

\* C27: in every SolutionGrade of CorrectnessGrader the number of issues is
\* the number of test cases minus the number counted correct (a test case
\* either increments number_correct or appends exactly one issue), so the
\* score is 1 if and only if the issue list is empty and the suite is not.
C27_IssuesComplementCorrect ==
    grader = "correctness" =>
        /\ gpc \in {"tests", "raised"} =>
                /\ total_tests = Len(curRuns)
                /\ number_correct = Cardinality(CountedCorrect(curRuns))
                /\ Len(issues) + number_correct = total_tests
        /\ \A k \in 1..Len(solutionGrades) :
            LET grade == solutionGrades[k]
                total == Len(ProblemOf(grade).correctness_test_suite)
            IN  /\ Len(gradeRuns[k]) = total
                /\ Len(grade.issues.items) = total - Cardinality(CountedCorrect(gradeRuns[k]))
                /\ (grade.score.den > 0 /\ grade.score.num = grade.score.den)
                        <=> (grade.issues.items = <<>> /\ total > 0)

\* a grade over two test cases, one counted correct and one with an issue,
\* next to a grade with score 1 and no issue
C27_Witness ==
    /\ grader = "correctness"
    /\ \E k \in 1..Len(solutionGrades) :
        /\ Len(gradeRuns[k]) = 2
        /\ Cardinality(CountedCorrect(gradeRuns[k])) = 1
        /\ Len(solutionGrades[k].issues.items) = 1
    /\ \E k \in 1..Len(solutionGrades) :
        /\ solutionGrades[k].score = Ratio(2, 2)
        /\ solutionGrades[k].issues.items = <<>>

-----------------------------------------------------------------------------
(* PerformanceGrader's totals, checked under SpecGrade *)

\* after round k a total is above the threshold
Exceeded(runs, k) ==
    ThresholdExceeded(TotalAfter(runs, k, "solution"), TotalAfter(runs, k, "optimal"))

C29_TotalsOverSameRounds ==
    [][(grader = "performance" /\ Len(curRuns') = Len(curRuns) + 1) =>
            LET round == curRuns'[Len(curRuns')]
            IN  IF round.solution.cpu_time = None \/ round.optimal.cpu_time = None
                THEN /\ total_solution_time' = total_solution_time
                     /\ total_optimal_time' = total_optimal_time
                ELSE /\ total_solution_time' = total_solution_time + round.solution.cpu_time.n
                     /\ total_optimal_time' = total_optimal_time + round.optimal.cpu_time.n]_vars

\* a round in which both sides reported a time above 0, then a round in
\* which only the candidate reported one, which left both totals as they were
C29_Witness ==
    /\ grader = "performance"
    /\ gpc = "tests"
    /\ Len(curRuns) = 2
    /\ ~MissingTime(curRuns[1])
    /\ curRuns[1].solution.cpu_time.n > 0 /\ curRuns[1].optimal.cpu_time.n > 0
    /\ curRuns[2].solution.cpu_time # None
    /\ curRuns[2].solution.cpu_time.n > 0
    /\ curRuns[2].optimal.cpu_time = None
    /\ total_solution_time = curRuns[1].solution.cpu_time.n
    /\ total_optimal_time = curRuns[1].optimal.cpu_time.n

-----------------------------------------------------------------------------
(* PerformanceGrader's round loop ends, checked under SpecPerformance *)

\* the number of tenfold increases of a test case is bounded: no round is
\* run with more iterations than the first count that outlasts the join, and
\* the round run with that count ends with a missing time
FinitelyManyIncreases ==
    grader = "performance" =>
        /\ perf_iterations < 10 * JoinTimeoutSeconds * FastestCallsPerSecond
        /\ \A k \in 1..Len(curRuns) :
            OutlastsJoin(curRuns[k].iterations) =>
                /\ curRuns[k].iterations < 10 * JoinTimeoutSeconds * FastestCallsPerSecond
                /\ MissingTime(curRuns[k])
                /\ k < Len(curRuns) => curRuns[k + 1].test = curRuns[k].test + 1

\* C30: PerformanceGrader's loop over the rounds of a test case always ends:
\* with sandbox calls that return, and runs that last longer the more
\* iterations they make, after finitely many tenfold increases a total
\* exceeds the threshold or a side returns without cpu_time, also when both
\* sides report cpu_time 0 in every completed round. The grader leaves the
\* test cases of a solution only through the end of every round loop.
C30_RoundLoopTerminates ==
    /\ []FinitelyManyIncreases
    /\ (grader = "performance" /\ gpc = "tests") ~> (gpc # "tests")

\* both sides reported cpu_time 0 in every round of the first test case
\* until the round whose run outlasted the join, which ended the test case
C30_Witness ==
    /\ grader = "performance"
    /\ gpc = "tests"
    /\ tIdx = 2
    /\ Len(curRuns) = MaxRounds + 1
    /\ \A k \in 1..MaxRounds :
        /\ curRuns[k].solution.cpu_time = PyInt(0)
        /\ curRuns[k].optimal.cpu_time = PyInt(0)
    /\ OutlastsJoin(curRuns[MaxRounds + 1].iterations)
    /\ MissingTime(curRuns[MaxRounds + 1])
    /\ total_solution_time = 0
    /\ total_optimal_time = 0

====
